---------------------------- MODULE Spec2Model ----------------------------
(***************************************************************************)
(* A model of travel_chatbot.py: the content validator                     *)
(* (TravelSecurityValidator), the session store (conversation_sessions)    *)
(* and the per-turn control flow of the chat endpoint.                     *)
(*                                                                         *)
(* A text is a sequence of chunks.  A chunk is either a run of word        *)
(* characters ("hotel", "s") or one non-word character (" ", "-").  Two    *)
(* adjacent word chunks are glued: <<"bomb", "s">> is the string "bombs".  *)
(* The chunk alphabets below are chosen so that no lexicon keyword arises  *)
(* by gluing chunks, so a keyword occurs in a text exactly where the       *)
(* chunks of the keyword occur.                                            *)
(***************************************************************************)
EXTENDS Integers, Sequences, FiniteSets, TLC

VARIABLES
    conversation_sessions,  \* the dictionary session_id -> session record
    last,                   \* what the last completed request did (observation)
    text,                   \* the validator's input under test
    validation,             \* the validator's result for text, or NoResult
    threads,                \* the concurrent chat requests in flight
    hotels_df,              \* the rows of travel_hotels.csv, or none
    attractions_df,         \* the rows of travel_attractions.csv, or none
    itinerary_templates,    \* travel_itinerary_templates.json, or none
    query                   \* the query function called last, and its result

vars ==
    <<conversation_sessions, last, text, validation, threads,
      hotels_df, attractions_df, itinerary_templates, query>>

\* What the requests to the chat routes and the validator leave alone.
queries == <<hotels_df, attractions_df, itinerary_templates, query>>

----------------------------------------------------------------------------
(* Bounds of the model.                                                    *)

MaxTextLen == 4      \* chunks in a text given to the validator under test
MaxCount == 52       \* no turn is sent to a session whose message_count reached this
MaxWarnings == 3     \* no off-topic turn is sent once off_topic_warnings reached this
MaxMessages == 4     \* no answered turn is sent that would grow the history beyond this
MaxKeysCount == 2    \* as MaxCount, where requests go to two sessions
MaxHotels == 3       \* rows of the hotel dataset
MaxAttractions == 4  \* rows of the attraction dataset
MaxHistory == 12     \* no travel query is sent that would grow a long history beyond this
MaxTurns == 7        \* no travel query is sent to a long conversation counted this often
MaxCityAttractions == 14   \* rows of the longest attraction file of one city
MaxDays == 2         \* the longest trip asked for, but for the ones out of range

----------------------------------------------------------------------------
(* The lexicon: TravelSecurityValidator.__init__                           *)

travel_keywords ==
    << \* destinations
       <<"city">>, <<"country">>, <<"destination">>, <<"place">>, <<"location">>,
       <<"visit">>, <<"travel", " ", "to">>, <<"paris">>, <<"london">>, <<"tokyo">>,
       <<"new", " ", "york">>, <<"dubai">>, <<"barcelona">>, <<"rome">>,
       <<"bangkok">>, <<"sydney">>, <<"mumbai">>, <<"europe">>, <<"asia">>,
       <<"america">>, <<"africa">>,
       \* accommodation
       <<"hotel">>, <<"hostel">>, <<"resort">>, <<"accommodation">>, <<"stay">>,
       <<"lodge">>, <<"inn">>, <<"apartment">>, <<"booking">>, <<"room">>,
       <<"suite">>, <<"bed", " ", "and", " ", "breakfast">>,
       \* activities
       <<"attraction">>, <<"sightseeing">>, <<"tour">>, <<"museum">>, <<"landmark">>,
       <<"monument">>, <<"beach">>, <<"park">>, <<"temple">>, <<"church">>,
       <<"castle">>, <<"gallery">>, <<"zoo">>, <<"shopping">>, <<"restaurant">>,
       <<"nightlife">>, <<"entertainment">>,
       \* transportation
       <<"flight">>, <<"plane">>, <<"airport">>, <<"train">>, <<"bus">>, <<"taxi">>,
       <<"car", " ", "rental">>, <<"transportation">>, <<"metro">>, <<"subway">>,
       <<"ferry">>, <<"cruise">>,
       \* planning
       <<"itinerary">>, <<"schedule">>, <<"plan">>, <<"trip">>, <<"vacation">>,
       <<"holiday">>, <<"journey">>, <<"budget">>, <<"cost">>, <<"price">>,
       <<"expense">>, <<"currency">>, <<"exchange">>, <<"visa">>, <<"passport">>,
       <<"weather">>, <<"climate">>, <<"season">> >>

high_threat ==
    << <<"bomb">>, <<"terrorist">>, <<"kill">>, <<"murder">>, <<"attack">>,
       <<"violence">>, <<"weapon">>, <<"gun">>, <<"knife">>, <<"explosive">>,
       <<"threat">>, <<"harm">>, <<"destroy">> >>

inappropriate ==
    << <<"sex">>, <<"porn">>, <<"nude">>, <<"adult">>, <<"drug">>, <<"cocaine">>,
       <<"marijuana">> >>

travel_illegal ==
    << <<"visa", " ", "fraud">>, <<"fake", " ", "passport">>, <<"smuggling">>,
       <<"human", " ", "trafficking">>, <<"drug", " ", "trafficking">>,
       <<"money", " ", "laundering">>, <<"illegal", " ", "border">> >>

\* Faulty variant: the high-threat category is no longer the first one scanned.
threat_words_reordered ==
    << [category |-> "inappropriate", words |-> inappropriate],
       [category |-> "travel_illegal", words |-> travel_illegal],
       [category |-> "high_threat", words |-> high_threat] >>

\* The threat categories in the order the dictionary lists them.
threat_words ==
    << [category |-> "high_threat", words |-> high_threat],
       [category |-> "inappropriate", words |-> inappropriate],
       [category |-> "travel_illegal", words |-> travel_illegal] >>

non_travel_topics ==
    << [category |-> "technology",
        words |-> << <<"programming">>, <<"coding">>, <<"software">>, <<"computer">>,
                     <<"python">>, <<"javascript">>, <<"html">>, <<"css">>,
                     <<"database">>, <<"api">>, <<"algorithm">> >>],
       [category |-> "entertainment",
        words |-> << <<"movie">>, <<"tv", " ", "show">>, <<"music">>, <<"song">>,
                     <<"game">>, <<"sport">>, <<"celebrity">>, <<"news">> >>],
       [category |-> "education",
        words |-> << <<"homework">>, <<"essay">>, <<"study">>, <<"exam">>,
                     <<"math", " ", "problem">>, <<"research", " ", "paper">> >>],
       [category |-> "general",
        words |-> << <<"hello">>, <<"hi">>, <<"how", " ", "are", " ", "you">>,
                     <<"tell", " ", "me", " ", "a", " ", "joke">>,
                     <<"what", " ", "do", " ", "you", " ", "think">> >>] >>

----------------------------------------------------------------------------
(* Strings as chunk sequences: str.strip, str.lower, str.split and the     *)
(* regular expressions \b(?:w1|w2|...)\b of _compile_patterns.             *)

NonWordChunks == {" ", "-"}

IsWordChunk(c) == c \notin NonWordChunks

\* str.lower on one chunk: the upper-case chunks of the alphabets.
LowerChunk(c) ==
    CASE c = "SEX" -> "sex"
      [] c = "BOMB" -> "bomb"
      [] OTHER -> c

Lower(t) == [i \in 1..Len(t) |-> LowerChunk(t[i])]

RECURSIVE LStrip(_)
LStrip(t) == IF t # <<>> /\ Head(t) = " " THEN LStrip(Tail(t)) ELSE t

RECURSIVE RStrip(_)
RStrip(t) ==
    IF t # <<>> /\ t[Len(t)] = " " THEN RStrip(SubSeq(t, 1, Len(t) - 1)) ELSE t

Strip(t) == RStrip(LStrip(t))

\* len(text.split()): the maximal runs of chunks other than white space.
WordCount(t) ==
    Cardinality({i \in 1..Len(t) : t[i] # " " /\ (i = 1 \/ t[i - 1] = " ")})

\* \b between t[i] and t[i+1] (i = 0: the start, i = Len(t): the end).
WordBoundary(t, i) ==
    LET before == i >= 1 /\ IsWordChunk(t[i])
        after == i < Len(t) /\ IsWordChunk(t[i + 1])
    IN  before # after

\* The literal w occupies t[i .. i + Len(w) - 1].
LiteralAt(t, i, w) ==
    /\ t[i] = w[1]
    /\ i + Len(w) - 1 <= Len(t)
    /\ \A j \in 2..Len(w) : t[i + j - 1] = w[j]

\* \b w \b matches at i.
WordAt(t, i, w) ==
    /\ LiteralAt(t, i, w)
    /\ WordBoundary(t, i - 1)
    /\ WordBoundary(t, i + Len(w) - 1)

\* The length matched at i by \b(?:w1|w2|...)\b: the first alternative that
\* matches decides; 0 when none does.
RECURSIVE MatchLen(_, _, _, _)
MatchLen(t, i, words, k) ==
    IF k > Len(words) THEN 0
    ELSE IF WordAt(t, i, words[k]) THEN Len(words[k])
    ELSE MatchLen(t, i, words, k + 1)

\* len(pattern.findall(text)): the non-overlapping matches, left to right.
RECURSIVE FindAllFrom(_, _, _)
FindAllFrom(t, i, words) ==
    IF i > Len(t) THEN 0
    ELSE LET n == MatchLen(t, i, words, 1)
         IN  IF n > 0 THEN 1 + FindAllFrom(t, i + n, words)
             ELSE FindAllFrom(t, i + 1, words)

FindAll(t, words) == FindAllFrom(t, 1, words)

\* pattern.search(text) is not None
Search(t, words) == \E i \in 1..Len(t) : MatchLen(t, i, words, 1) > 0

----------------------------------------------------------------------------
(* TravelSecurityValidator                                                 *)

None == "None"   \* an absent field of a result or a message

\* _check_security_threats: the first category, in dictionary order, whose
\* pattern finds a match.
RECURSIVE ThreatFrom(_, _, _)
ThreatFrom(t, threats, k) ==
    IF k > Len(threats) THEN [is_safe |-> TRUE, category |-> None, severity |-> None]
    ELSE IF FindAll(t, threats[k].words) > 0
         THEN [is_safe |-> FALSE,
               category |-> threats[k].category,
               severity |-> IF threats[k].category = "high_threat"
                            THEN "critical" ELSE "moderate"]
    ELSE ThreatFrom(t, threats, k + 1)

_check_security_threats(t) == ThreatFrom(t, threat_words, 1)

\* The five travel_patterns of _calculate_travel_relevance.  The fourth is
\* \b(?:budget for|cost of).+(?:trip|travel|vacation)\b: no \b after the
\* opening phrase nor before the closing word, and a character between them.
visit_phrases ==
    << <<"trip", " ", "to">>, <<"travel", " ", "to">>, <<"visit">>,
       <<"vacation", " ", "in">>, <<"holiday", " ", "in">> >>
stay_phrases ==
    << <<"hotel", " ", "in">>, <<"stay", " ", "in">>, <<"accommodation", " ", "in">> >>
attraction_phrases ==
    << <<"attractions", " ", "in">>, <<"things", " ", "to", " ", "do", " ", "in">> >>
budget_openers == {<<"budget", " ", "for">>, <<"cost", " ", "of">>}
budget_closers == {"trip", "travel", "vacation"}
weather_phrases ==
    << <<"weather", " ", "in">>, <<"climate", " ", "in">>,
       <<"best", " ", "time", " ", "to", " ", "visit">> >>

BudgetPhrase(t) ==
    \E i \in 1..Len(t) : \E p \in budget_openers :
        /\ WordBoundary(t, i - 1)
        /\ LiteralAt(t, i, p)
        /\ \E j \in (i + Len(p) + 1)..Len(t) :
              t[j] \in budget_closers /\ WordBoundary(t, j)

\* The number of travel_patterns that match: pattern_boost is 0.2 times it.
PatternMatches(t) ==
      (IF Search(t, visit_phrases) THEN 1 ELSE 0)
    + (IF Search(t, stay_phrases) THEN 1 ELSE 0)
    + (IF Search(t, attraction_phrases) THEN 1 ELSE 0)
    + (IF BudgetPhrase(t) THEN 1 ELSE 0)
    + (IF Search(t, weather_phrases) THEN 1 ELSE 0)

Min(a, b) == IF a <= b THEN a ELSE b

\* _calculate_travel_relevance, as the exact fraction num / den.  With n words
\* and m keyword matches, keyword_score = min(m / max(0.3 n, 1), 1) and the
\* result is min(keyword_score + 0.2 b, 1); over the denominator 30 n these
\* are min(100 m, 30 n) (min(m, 1) * 30 n while 0.3 n <= 1) and 6 b n.
_calculate_travel_relevance(t) ==
    LET n == WordCount(t)
        m == FindAll(t, travel_keywords)
        b == PatternMatches(t)
        keyword_score == IF 3 * n <= 10 THEN Min(m, 1) * 30 * n
                         ELSE Min(100 * m, 30 * n)
    IN  IF n = 0 THEN [num |-> 0, den |-> 1]
        ELSE [num |-> Min(keyword_score + 6 * b * n, 30 * n), den |-> 30 * n]

\* Faulty variant: the comparison with the threshold is turned round.
AboveThreshold(score) == 10 * score.num > 3 * score.den

\* travel_score < 0.3
BelowThreshold(score) == 10 * score.num < 3 * score.den

\* _detect_non_travel_category
RECURSIVE TopicFrom(_, _, _)
TopicFrom(t, topics, k) ==
    IF k > Len(topics) THEN "other_non_travel"
    ELSE IF Search(t, topics[k].words) THEN topics[k].category
    ELSE TopicFrom(t, topics, k + 1)

_detect_non_travel_category(t) == TopicFrom(t, non_travel_topics, 1)

\* _get_travel_suggestion: random.choice over the four suggestions.
Suggestions == 1..4

NoScore == [num |-> 0, den |-> 0]

\* A string argument, and an argument that is no string (None, a number).
Str(t) == [is_str |-> TRUE, chunks |-> t]
NotStr == [is_str |-> FALSE, chunks |-> <<>>]

\* Faulty variant: the redirect branch lets the message through.
RedirectResultAllows(t, score, suggestion) ==
    [is_safe |-> TRUE, is_travel |-> FALSE, action |-> "allow",
     reason |-> "non_travel_topic",
     category |-> _detect_non_travel_category(t), severity |-> None,
     travel_score |-> score, suggestion |-> suggestion]

\* The redirect branch of validate_content (score below the threshold).
RedirectResult(t, score, suggestion) ==
    [is_safe |-> TRUE, is_travel |-> FALSE, action |-> "redirect",
     reason |-> "non_travel_topic",
     category |-> _detect_non_travel_category(t), severity |-> None,
     travel_score |-> score, suggestion |-> suggestion]

\* validate_content(text); suggestion is the random choice it makes when it
\* redirects.
validate_content(arg, suggestion) ==
    IF ~arg.is_str \/ arg.chunks = <<>>
    THEN [is_safe |-> FALSE, is_travel |-> FALSE, action |-> "block",
          reason |-> "invalid_input", category |-> None, severity |-> None,
          travel_score |-> NoScore, suggestion |-> 0]
    ELSE
    LET text_clean == Lower(Strip(arg.chunks))
        security_result == _check_security_threats(text_clean)
        travel_score == _calculate_travel_relevance(text_clean)
    IN  IF ~security_result.is_safe
        THEN [is_safe |-> FALSE, is_travel |-> FALSE, action |-> "block",
              reason |-> "security_violation",
              category |-> security_result.category,
              severity |-> security_result.severity,
              travel_score |-> NoScore, suggestion |-> 0]
        ELSE IF BelowThreshold(travel_score)
        THEN RedirectResult(text_clean, travel_score, suggestion)
        ELSE [is_safe |-> TRUE, is_travel |-> TRUE, action |-> "allow",
              reason |-> "valid_travel_query", category |-> None,
              severity |-> None, travel_score |-> travel_score, suggestion |-> 0]

NoResult ==
    [is_safe |-> FALSE, is_travel |-> FALSE, action |-> "none", reason |-> None,
     category |-> None, severity |-> None, travel_score |-> NoScore,
     suggestion |-> 0]

----------------------------------------------------------------------------
(* The values a function argument decoded from JSON can have, with the     *)
(* Python operations the query functions apply to them.                    *)

PyNone == [kind |-> "none", n |-> 0, s |-> ""]
PyInt(n) == [kind |-> "int", n |-> n, s |-> ""]
PyFloat(n) == [kind |-> "float", n |-> n, s |-> ""]     \* the float n.0
PyBool(b) == [kind |-> "bool", n |-> IF b THEN 1 ELSE 0, s |-> ""]
PyStr(s) == [kind |-> "str", n |-> 0, s |-> s]

\* bool(v)
Truthy(v) ==
    CASE v.kind = "none" -> FALSE
      [] v.kind = "str" -> v.s # ""
      [] OTHER -> v.n # 0

\* isinstance(v, int): bool is a subclass of int.
IsInt(v) == v.kind \in {"int", "bool"}

\* isinstance(v, str)
IsStr(v) == v.kind = "str"

\* s.lower(), on the strings of the model.
StrLower(s) ==
    CASE s = "Paris" -> "paris"
      [] s = "Rome" -> "rome"
      [] s = "Atlantis" -> "atlantis"
      [] s \in {"LUXURY", "Luxury"} -> "luxury"
      [] s = "Museum" -> "museum"
      [] OTHER -> s

\* s.strip().title(), on the strings of the model.
StripTitle(s) ==
    CASE s \in {"paris", " PARIS ", "Paris"} -> "Paris"
      [] s \in {"rome", "Rome"} -> "Rome"
      [] s = "Atlantis" -> "Atlantis"
      [] s = "  " -> ""
      [] s \in {"bangkok", "Bangkok"} -> "Bangkok"
      [] s \in {"new york", "New York"} -> "New York"
      [] s \in {"july", " JULY ", "July"} -> "July"
      [] s = "november " -> "November"
      [] OTHER -> s

\* sorted(cities), for the cities of the datasets.
SortedCities(cities) == SelectSeq(<<"Paris", "Rome">>, LAMBDA c : c \in cities)

\* Faulty variant: no row is cut off.
HeadRowsAll(rows, n) == rows

\* rows.head(n)
HeadRows(rows, n) == SubSeq(rows, 1, Min(n, Len(rows)))

\* sum(numbers)
RECURSIVE Sum(_)
Sum(numbers) == IF numbers = <<>> THEN 0 ELSE Head(numbers) + Sum(Tail(numbers))

----------------------------------------------------------------------------
(* The results of the query functions: dictionaries, the keys they have    *)
(* and the values of the keys the model follows.                           *)

EmptyPayload ==
    [keys |-> {}, error |-> None, suggestion |-> None, available_cities |-> <<>>,
     city |-> None, hotels |-> <<>>, average_price |-> 0, attractions |-> <<>>,
     itinerary |-> <<>>, itinerary_type |-> None, total_estimated_cost |-> 0,
     duration_days |-> 0, accommodation_total |-> 0,
     avg_attraction_cost |-> [num |-> 0, den |-> 1],
     travel_month |-> None, recommendation_level |-> None]

\* {"error": error}
ErrorPayload(error) == [EmptyPayload EXCEPT !.keys = {"error"}, !.error = error]

\* {"error": ..., "available_cities": ..., "suggestion": "Try one of these cities"}
UnknownCityPayload(error, cities) ==
    [EmptyPayload EXCEPT !.keys = {"error", "available_cities", "suggestion"},
                         !.error = error, !.available_cities = SortedCities(cities),
                         !.suggestion = "try_one_of_these_cities"]

\* {"error": ..., "suggestion": ...}
NoMatchPayload(error, suggestion) ==
    [EmptyPayload EXCEPT !.keys = {"error", "suggestion"},
                         !.error = error, !.suggestion = suggestion]

\* result.get("success")
Succeeded(result) == "success" \in result.keys

----------------------------------------------------------------------------
(* TravelPlannerFunctions.search_hotels                                    *)

\* results.sort_values(['rating', 'price_per_night'], ascending=[False, True]):
\* rows that tie keep their order.
InsertHotel(sorted, row) ==
    LET Before(a, b) ==
            \/ a.rating > b.rating
            \/ a.rating = b.rating /\ a.price_per_night < b.price_per_night
        p == Cardinality({i \in 1..Len(sorted) : ~Before(row, sorted[i])})
    IN  SubSeq(sorted, 1, p) \o <<row>> \o SubSeq(sorted, p + 1, Len(sorted))

RECURSIVE SortHotels(_)
SortHotels(rows) ==
    IF rows = <<>> THEN <<>>
    ELSE InsertHotel(SortHotels(SubSeq(rows, 1, Len(rows) - 1)), rows[Len(rows)])

\* An element of hotels_list.
HotelItem(row) ==
    [id |-> row.hotel_id, category |-> row.category,
     price_per_night |-> row.price_per_night, rating |-> row.rating,
     available |-> row.availability]

HotelsShown == 8        \* .head(8)
MaxBudget == 5000       \* budget_max > 5000

\* Faulty variant: the result is built without the test for an empty selection;
\* results.iloc[0] then raises IndexError, which the function's handler
\* turns into its generic error.
HotelsFoundUnchecked(city, city_hotels) ==
    IF city_hotels = <<>>
    THEN ErrorPayload("failed_to_search_hotels")
    ELSE LET results == HeadRows(SortHotels(city_hotels), HotelsShown)
         IN  [EmptyPayload EXCEPT
                !.keys = {"success", "city", "country", "hotels_found", "hotels",
                          "statistics", "filters_applied"},
                !.city = city,
                !.hotels = [i \in 1..Len(results) |-> HotelItem(results[i])],
                !.average_price =
                    Sum([i \in 1..Len(results) |-> results[i].price_per_night])
                        \div Len(results)]

\* search_hotels from the test for an empty selection to the result.
HotelsFound(city, city_hotels) ==
    IF city_hotels = <<>>
    THEN NoMatchPayload("no_hotels_matching_criteria", "adjust_budget_or_category")
    ELSE LET results == HeadRows(SortHotels(city_hotels), HotelsShown)
         IN  [EmptyPayload EXCEPT
                !.keys = {"success", "city", "country", "hotels_found", "hotels",
                          "statistics", "filters_applied"},
                !.city = city,
                !.hotels = [i \in 1..Len(results) |-> HotelItem(results[i])],
                !.average_price =
                    Sum([i \in 1..Len(results) |-> results[i].price_per_night])
                        \div Len(results)]

\* search_hotels(city, budget_max, category, check_availability)
search_hotels(city_arg, budget_max, category, check_availability) ==
    IF ~Truthy(city_arg) \/ ~IsStr(city_arg)
    THEN ErrorPayload("city_required")
    ELSE
    LET city == StripTitle(city_arg.s)
        city_hotels ==
            SelectSeq(hotels_df, LAMBDA r : StrLower(r.city) = StrLower(city))
        budgeted ==
            IF Truthy(budget_max)
            THEN SelectSeq(city_hotels, LAMBDA r : r.price_per_night <= budget_max.n)
            ELSE city_hotels
        categorized ==
            IF Truthy(category)
            THEN SelectSeq(budgeted,
                           LAMBDA r : StrLower(r.category) = StrLower(category.s))
            ELSE budgeted
        available ==
            IF Truthy(check_availability)
            THEN SelectSeq(categorized, LAMBDA r : r.availability)
            ELSE categorized
    IN  IF hotels_df = <<>>
        THEN ErrorPayload("hotel_database_unavailable")
        ELSE IF city_hotels = <<>>
        THEN UnknownCityPayload("no_hotels_in_city",
                                {hotels_df[i].city : i \in 1..Len(hotels_df)})
        ELSE IF Truthy(budget_max)
                /\ (~IsInt(budget_max) \/ budget_max.n < 0 \/ budget_max.n > MaxBudget)
        THEN ErrorPayload("budget_out_of_range")
        ELSE IF Truthy(category) /\ ~IsStr(category)
        THEN \* category.lower() raises AttributeError, caught by the function
             ErrorPayload("failed_to_search_hotels")
        ELSE IF Truthy(category)
                /\ StrLower(category.s) \notin {"luxury", "mid-range", "budget"}
        THEN ErrorPayload("category_must_be_one_of")
        ELSE HotelsFound(city, available)

----------------------------------------------------------------------------
(* TravelPlannerFunctions.get_attractions                                  *)

\* results.sort_values(['rating', 'entry_fee'], ascending=[False, True])
InsertAttraction(sorted, row) ==
    LET Before(a, b) ==
            \/ a.rating > b.rating
            \/ a.rating = b.rating /\ a.entry_fee < b.entry_fee
        p == Cardinality({i \in 1..Len(sorted) : ~Before(row, sorted[i])})
    IN  SubSeq(sorted, 1, p) \o <<row>> \o SubSeq(sorted, p + 1, Len(sorted))

RECURSIVE SortAttractions(_)
SortAttractions(rows) ==
    IF rows = <<>> THEN <<>>
    ELSE InsertAttraction(SortAttractions(SubSeq(rows, 1, Len(rows) - 1)),
                          rows[Len(rows)])

AttractionsShown == 12      \* .head(12)

\* An element of attractions_list.
AttractionItem(row) ==
    [id |-> row.attraction_id, category |-> row.category,
     entry_fee |-> row.entry_fee, rating |-> row.rating,
     duration_hours |-> row.duration_hours]

\* get_attractions(city, category, max_entry_fee)
get_attractions(city_arg, category, max_entry_fee) ==
    IF ~Truthy(city_arg) \/ ~IsStr(city_arg)
    THEN ErrorPayload("city_required")
    ELSE
    LET city == StripTitle(city_arg.s)
        city_attractions ==
            SelectSeq(attractions_df, LAMBDA r : StrLower(r.city) = StrLower(city))
        available_categories ==
            {attractions_df[i].category : i \in 1..Len(attractions_df)}
        categorized ==
            IF Truthy(category)
            THEN SelectSeq(city_attractions, LAMBDA r : r.category = category.s)
            ELSE city_attractions
        affordable ==
            IF max_entry_fee.kind # "none"
            THEN SelectSeq(categorized, LAMBDA r : r.entry_fee <= max_entry_fee.n)
            ELSE categorized
    IN  IF attractions_df = <<>>
        THEN ErrorPayload("attractions_database_unavailable")
        ELSE IF city_attractions = <<>>
        THEN UnknownCityPayload("no_attractions_in_city",
                                {attractions_df[i].city : i \in 1..Len(attractions_df)})
        ELSE IF Truthy(category)
                /\ (~IsStr(category) \/ category.s \notin available_categories)
        THEN [EmptyPayload EXCEPT !.keys = {"error", "available_categories"},
                                  !.error = "invalid_category"]
        ELSE IF max_entry_fee.kind # "none"
                /\ (~IsInt(max_entry_fee) \/ max_entry_fee.n < 0)
        THEN ErrorPayload("fee_must_be_non_negative_integer")
        ELSE IF affordable = <<>>
        THEN NoMatchPayload("no_attractions_matching_criteria",
                            "adjust_category_or_budget")
        ELSE LET results == HeadRows(SortAttractions(affordable), AttractionsShown)
             IN  [EmptyPayload EXCEPT
                    !.keys = {"success", "city", "country", "attractions_found",
                              "attractions", "categories_summary", "statistics",
                              "filters_applied"},
                    !.city = city,
                    !.attractions = [i \in 1..Len(results) |-> AttractionItem(results[i])]]

----------------------------------------------------------------------------
(* TravelPlannerFunctions.create_itinerary                                 *)

MinDuration == 1            \* duration_days < 1
MaxItineraryDays == 14      \* duration_days > 14
BaseDayCost == 50           \* day_cost = 50
MinPerDay == 2              \* max(2, len(attractions) // duration_days)


\* The keys of categorized_attractions, in the order of insertion: the
\* categories in the order in which they first occur in attractions.
RECURSIVE CategoriesInOrder(_, _)
CategoriesInOrder(attractions, seen) ==
    IF attractions = <<>> THEN <<>>
    ELSE IF Head(attractions).category \in seen
         THEN CategoriesInOrder(Tail(attractions), seen)
         ELSE <<Head(attractions).category>>
                \o CategoriesInOrder(Tail(attractions),
                                     seen \cup {Head(attractions).category})

\* What a day has so far: its attractions and the ids used in the itinerary.
\* The loop over the categories: one unused attraction of each category
\* while the day has room.
RECURSIVE PickByCategory(_, _, _, _, _)
PickByCategory(attractions, categories, day_attractions, used_attractions, per_day) ==
    IF categories = <<>>
    THEN [day_attractions |-> day_attractions, used_attractions |-> used_attractions]
    ELSE LET available == SelectSeq(attractions,
                              LAMBDA a : /\ a.category = Head(categories)
                                         /\ a.id \notin used_attractions)
         IN  IF available # <<>> /\ Len(day_attractions) < per_day
             THEN PickByCategory(attractions, Tail(categories),
                                 Append(day_attractions, available[1]),
                                 used_attractions \cup {available[1].id}, per_day)
             ELSE PickByCategory(attractions, Tail(categories), day_attractions,
                                 used_attractions, per_day)

\* The loop that fills the remaining slots of the day.
RECURSIVE FillDay(_, _, _, _)
FillDay(attractions, day_attractions, used_attractions, per_day) ==
    LET remaining == SelectSeq(attractions, LAMBDA a : a.id \notin used_attractions)
    IN  IF Len(day_attractions) >= per_day \/ remaining = <<>>
        THEN [day_attractions |-> day_attractions, used_attractions |-> used_attractions]
        ELSE FillDay(attractions, Append(day_attractions, remaining[1]),
                     used_attractions \cup {remaining[1].id}, per_day)

\* day_plan
DayPlan(day, day_attractions) ==
    [day |-> day, attraction_details |-> day_attractions,
     estimated_cost |->
         BaseDayCost + Sum([i \in 1..Len(day_attractions) |->
                                day_attractions[i].entry_fee]),
     total_duration |->
         Sum([i \in 1..Len(day_attractions) |-> day_attractions[i].duration_hours])]

\* Faulty variant: the set of used attractions is emptied at the start of a day.
RECURSIVE DistributeForgetful(_, _, _, _, _, _)
DistributeForgetful(attractions, categories, day, duration_days, used_attractions, per_day) ==
    IF day > duration_days THEN <<>>
    ELSE LET picked == PickByCategory(attractions, categories, <<>>, {}, per_day)
             filled == FillDay(attractions, picked.day_attractions,
                               picked.used_attractions, per_day)
         IN  <<DayPlan(day, filled.day_attractions)>>
               \o DistributeForgetful(attractions, categories, day + 1, duration_days,
                                      filled.used_attractions, per_day)

\* The loop over the days, from day on: the day plans.
RECURSIVE Distribute(_, _, _, _, _, _)
Distribute(attractions, categories, day, duration_days, used_attractions, per_day) ==
    IF day > duration_days THEN <<>>
    ELSE LET picked == PickByCategory(attractions, categories, <<>>,
                                      used_attractions, per_day)
             filled == FillDay(attractions, picked.day_attractions,
                               picked.used_attractions, per_day)
         IN  <<DayPlan(day, filled.day_attractions)>>
               \o Distribute(attractions, categories, day + 1, duration_days,
                             filled.used_attractions, per_day)

\* Faulty variant: the base cost of a day is added to the days of a template.
TemplatePayloadRecosted(city, duration_days, template_itinerary) ==
    [EmptyPayload EXCEPT
        !.keys = {"success", "city", "duration_days", "itinerary_type",
                  "itinerary", "total_estimated_cost", "daily_average_cost", "notes"},
        !.city = city, !.duration_days = duration_days,
        !.itinerary_type = "curated_template",
        !.itinerary = template_itinerary,
        !.total_estimated_cost =
            Sum([i \in 1..Len(template_itinerary) |->
                    BaseDayCost + template_itinerary[i].estimated_cost])]

\* The result for a pre-built template.
TemplatePayload(city, duration_days, template_itinerary) ==
    [EmptyPayload EXCEPT
        !.keys = {"success", "city", "duration_days", "itinerary_type",
                  "itinerary", "total_estimated_cost", "daily_average_cost", "notes"},
        !.city = city, !.duration_days = duration_days,
        !.itinerary_type = "curated_template",
        !.itinerary = template_itinerary,
        !.total_estimated_cost =
            Sum([i \in 1..Len(template_itinerary) |->
                    template_itinerary[i].estimated_cost])]

\* create_itinerary(city, duration_days, interests)
create_itinerary(city_arg, duration_days, interests) ==
    IF ~Truthy(city_arg) \/ ~IsStr(city_arg)
    THEN ErrorPayload("city_required")
    ELSE IF ~IsInt(duration_days) \/ duration_days.n < MinDuration
            \/ duration_days.n > MaxItineraryDays
    THEN ErrorPayload("duration_1_to_14")
    ELSE
    LET city == StripTitle(city_arg.s)
        \* f"{duration_days}_days" is "True_days" for True
        has_template ==
            /\ city \in DOMAIN itinerary_templates
            /\ duration_days.kind = "int"
            /\ duration_days.n \in DOMAIN itinerary_templates[city]
        attractions_result == get_attractions(PyStr(city), PyNone, PyNone)
        attractions == attractions_result.attractions
        attractions_per_day == IF MinPerDay >= Len(attractions) \div duration_days.n
                               THEN MinPerDay
                               ELSE Len(attractions) \div duration_days.n
        itinerary == Distribute(attractions, CategoriesInOrder(attractions, {}), 1,
                                duration_days.n, {}, attractions_per_day)
    IN  IF has_template
        THEN TemplatePayload(city, duration_days.n,
                             itinerary_templates[city][duration_days.n])
        ELSE IF ~Succeeded(attractions_result)
        THEN attractions_result
        ELSE IF Len(attractions) < duration_days.n * 2
        THEN NoMatchPayload("insufficient_attraction_data",
                            "shorter_duration_or_other_destination")
        ELSE [EmptyPayload EXCEPT
                !.keys = {"success", "city", "duration_days", "itinerary_type",
                          "itinerary", "total_estimated_cost", "daily_average_cost",
                          "attractions_included", "customization", "notes"},
                !.city = city, !.duration_days = duration_days.n,
                !.itinerary_type = "custom_generated",
                !.itinerary = itinerary,
                !.total_estimated_cost =
                    Sum([i \in 1..Len(itinerary) |-> itinerary[i].estimated_cost])]

----------------------------------------------------------------------------
(* TravelPlannerFunctions.get_travel_budget_estimate                       *)

MaxBudgetDays == 30         \* duration_days > 30
FallbackAttractionCost == 20    \* avg_attraction_cost = 20

\* An argument the call leaves out: the parameter takes its default.
Absent == [kind |-> "absent", n |-> 0, s |-> ""]

\* base_prices
base_prices(category) ==
    CASE category = "luxury" -> 400
      [] category = "mid-range" -> 150
      [] category = "budget" -> 60

\* city_multipliers.get(city, 1.0), in tenths
city_multipliers(city) ==
    CASE city = "Paris" -> 13
      [] city = "Rome" -> 10
      [] OTHER -> 10

\* Faulty variant: the estimate gives up when the hotel search fails.
HotelPriceNoFallback(hotels_result, city, category) ==
    IF Succeeded(hotels_result) /\ hotels_result.hotels # <<>>
    THEN [ok |-> TRUE, price |-> hotels_result.average_price]
    ELSE [ok |-> FALSE, price |-> 0]

\* avg_hotel_price: from the hotels found, else from the fallback table.
HotelPrice(hotels_result, city, category) ==
    IF Succeeded(hotels_result) /\ hotels_result.hotels # <<>>
    THEN [ok |-> TRUE, price |-> hotels_result.average_price]
    ELSE [ok |-> TRUE,
          price |-> (base_prices(category) * city_multipliers(city)) \div 10]

\* get_travel_budget_estimate(city, duration_days, accommodation_category)
get_travel_budget_estimate(city_arg, duration_days, category_arg) ==
    LET accommodation_category ==
            IF category_arg.kind = "absent" THEN PyStr("mid-range") ELSE category_arg
    IN
    IF ~Truthy(city_arg) \/ ~IsStr(city_arg)
    THEN ErrorPayload("city_required")
    ELSE IF ~IsInt(duration_days) \/ duration_days.n < MinDuration
            \/ duration_days.n > MaxBudgetDays
    THEN ErrorPayload("duration_1_to_30")
    ELSE IF ~IsStr(accommodation_category)
            \/ accommodation_category.s \notin {"luxury", "mid-range", "budget"}
    THEN ErrorPayload("accommodation_category_must_be_one_of")
    ELSE
    LET city == StripTitle(city_arg.s)
        hotels_result ==
            search_hotels(PyStr(city), PyNone, accommodation_category, PyBool(TRUE))
        avg_hotel_price == HotelPrice(hotels_result, city, accommodation_category.s)
        attractions_result == get_attractions(PyStr(city), PyNone, PyNone)
        attractions_data ==
            HeadRows(attractions_result.attractions, duration_days.n * 3)
        avg_attraction_cost ==
            IF Succeeded(attractions_result) /\ attractions_result.attractions # <<>>
            THEN [num |-> Sum([i \in 1..Len(attractions_data) |->
                                  attractions_data[i].entry_fee]),
                  den |-> Len(attractions_data)]
            ELSE [num |-> FallbackAttractionCost, den |-> 1]
    IN  IF ~avg_hotel_price.ok
        THEN ErrorPayload("failed_to_estimate_budget")
        ELSE [EmptyPayload EXCEPT
                !.keys = {"success", "city", "duration_days", "accommodation_category",
                          "budget_breakdown", "daily_average", "category_comparisons",
                          "budget_tips", "currency"},
                !.city = city, !.duration_days = duration_days.n,
                !.accommodation_total = avg_hotel_price.price * duration_days.n,
                !.avg_attraction_cost = avg_attraction_cost]

----------------------------------------------------------------------------
(* TravelPlannerFunctions.check_weather_recommendation                     *)

valid_months ==
    {"January", "February", "March", "April", "May", "June", "July", "August",
     "September", "October", "November", "December"}

\* The months of a city: the lists are read with `in` only.
Weather(best_months, good_months, avoid_months) ==
    [best_months |-> best_months, good_months |-> good_months,
     avoid_months |-> avoid_months]

weather_data ==
    [city \in {"Paris", "London", "Tokyo", "New York", "Dubai", "Barcelona",
               "Rome", "Bangkok", "Sydney", "Mumbai"} |->
        CASE city = "Paris" ->
                Weather({"April", "May", "June", "September", "October"},
                        {"March", "July", "August"},
                        {"December", "January", "February"})
          [] city = "London" ->
                Weather({"May", "June", "July", "August", "September"},
                        {"April", "October"},
                        {"November", "December", "January", "February"})
          [] city = "Tokyo" ->
                Weather({"March", "April", "May", "October", "November"},
                        {"February", "December"},
                        {"June", "July", "August", "September"})
          [] city = "New York" ->
                Weather({"April", "May", "June", "September", "October"},
                        {"March", "November"},
                        {"January", "February", "July", "August"})
          [] city = "Dubai" ->
                Weather({"November", "December", "January", "February", "March"},
                        {"April", "October"},
                        {"June", "July", "August", "September"})
          [] city = "Barcelona" ->
                Weather({"April", "May", "June", "September", "October"},
                        {"March", "July", "November"},
                        {"December", "January", "February"})
          [] city = "Rome" ->
                Weather({"April", "May", "June", "September", "October"},
                        {"March", "November"},
                        {"July", "August", "December", "January"})
          [] city = "Bangkok" ->
                Weather({"November", "December", "January", "February"},
                        {"March", "October"},
                        {"April", "May", "June", "July", "August", "September"})
          [] city = "Sydney" ->
                Weather({"September", "October", "November", "March", "April",
                         "May"},
                        {"February", "June"},
                        {"July", "August"})
          [] city = "Mumbai" ->
                Weather({"November", "December", "January", "February", "March"},
                        {"October", "April"},
                        {"June", "July", "August", "September"})]

default_weather ==
    Weather({"April", "May", "September", "October"},
            {"March", "June", "November"},
            {"December", "January", "February"})

\* A faulty variant: a month to avoid is rated as any other month.
RecommendationLevelNoAvoid(city_weather, travel_month) ==
    IF travel_month \in city_weather.best_months THEN "excellent"
    ELSE IF travel_month \in city_weather.good_months THEN "good"
    ELSE "fair"

\* The if/elif chain that determines recommendation_level.
RecommendationLevel(city_weather, travel_month) ==
    IF travel_month \in city_weather.best_months THEN "excellent"
    ELSE IF travel_month \in city_weather.good_months THEN "good"
    ELSE IF travel_month \in city_weather.avoid_months THEN "not_recommended"
    ELSE "fair"

check_weather_recommendation(city_arg, month_arg) ==
    IF ~Truthy(city_arg) \/ ~IsStr(city_arg)
    THEN ErrorPayload("city_required")
    ELSE IF ~Truthy(month_arg) \/ ~IsStr(month_arg)
    THEN ErrorPayload("travel_month_required")
    ELSE
    LET city == StripTitle(city_arg.s)
        travel_month == StripTitle(month_arg.s)
        city_weather == IF city \in DOMAIN weather_data THEN weather_data[city]
                        ELSE default_weather
    IN  IF travel_month \notin valid_months
        THEN ErrorPayload("invalid_month")
        ELSE [EmptyPayload EXCEPT
                !.keys = {"success", "city", "travel_month", "recommendation_level",
                          "recommendation", "weather_details", "travel_tips"},
                !.city = city, !.travel_month = travel_month,
                !.recommendation_level =
                    RecommendationLevel(city_weather, travel_month)]

----------------------------------------------------------------------------
(* The datasets and the calls of the query functions.                      *)

NoTemplates == << >>

NoQuery ==
    [function |-> None, city |-> PyNone, budget_max |-> PyNone,
     category |-> PyNone, check_availability |-> PyNone,
     max_entry_fee |-> PyNone, duration_days |-> PyNone, interests |-> PyNone,
     travel_month |-> PyNone, result |-> EmptyPayload]

\* The datasets of a process that serves no query.
NothingLoaded ==
    /\ hotels_df = <<>>
    /\ attractions_df = <<>>
    /\ itinerary_templates = NoTemplates
    /\ query = NoQuery

----------------------------------------------------------------------------
(* The session store and the function registry.                            *)

RateLimit == 50          \* session['message_count'] > 50
ViolationLimit == 2      \* session['security_violations'] >= 2

\* The record chat() creates for a new session and after a security reset
\* (created_at, which nothing reads but session_status, is left out).
NewSession ==
    [messages |-> <<>>, message_count |-> 0, off_topic_warnings |-> 0,
     security_violations |-> 0]

\* conversation_sessions[session_id] = record
Put(sessions, session_id, record) ==
    [k \in DOMAIN sessions \cup {session_id} |->
        IF k = session_id THEN record ELSE sessions[k]]

\* del conversation_sessions[session_id]
Del(sessions, session_id) ==
    [k \in DOMAIN sessions \ {session_id} |-> sessions[k]]

\* function_mapping
function_mapping ==
    {"search_hotels", "get_attractions", "create_itinerary",
     "get_travel_budget_estimate", "check_weather_recommendation"}

\* The messages of a history, all with the same fields.
UserMessage(content) ==
    [role |-> "user", content |-> content, name |-> None, function_call |-> None]
AssistantMessage(reply) ==
    [role |-> "assistant", content |-> <<reply>>, name |-> None,
     function_call |-> None]
function_call_message(function_name) ==
    [role |-> "assistant", content |-> <<>>, name |-> None,
     function_call |-> function_name]
function_result_message(function_name) ==
    [role |-> "function", content |-> <<"function_result">>,
     name |-> function_name, function_call |-> None]

system_message ==
    [role |-> "system", content |-> <<"system_prompt">>, name |-> None,
     function_call |-> None]

\* seq[-n:]
LastN(seq, n) ==
    IF Len(seq) <= n THEN seq ELSE SubSeq(seq, Len(seq) - n + 1, Len(seq))

ContextSize == 10        \* session['messages'][-10:]

\* Faulty variant: the whole history is sent.
ContextWholeHistory(session, user_message) ==
    <<system_message>> \o session.messages \o <<UserMessage(user_message)>>

\* The message list of the first model call.
Context(session, user_message) ==
    <<system_message>> \o LastN(session.messages, ContextSize)
        \o <<UserMessage(user_message)>>

----------------------------------------------------------------------------
(* The model capability, as chat() sees it through                         *)
(* call_openai_with_functions: None on any failure, else a message that    *)
(* is a text or a function call (a name and a JSON string of arguments).   *)

NoResponse == [kind |-> "none", name |-> None, arguments |-> None]
TextResponse == [kind |-> "text", name |-> None, arguments |-> None]
FunctionCall(name, arguments) ==
    [kind |-> "function_call", name |-> name, arguments |-> arguments]

\* The names the model asks for: a registered one and one that is not.
RequestedNames == {"search_hotels", "book_flight"}

\* The arguments string: no JSON; a JSON object the function's parameters
\* accept; JSON the call function(**function_args) raises TypeError on (an
\* unexpected or a missing name, or no object at all).
ArgumentKinds == {"malformed", "accepted", "mismatched"}

ModelResponses ==
    {NoResponse, TextResponse}
        \cup {FunctionCall(n, a) : n \in RequestedNames, a \in ArgumentKinds}

FinalResponses == {NoResponse, TextResponse}

----------------------------------------------------------------------------
(* chat(): one turn, from the request to the response.                     *)

\* What a turn did: the store it leaves, the response it returns (outcome,
\* and which canned message), how often it invoked the model and the query
\* functions, whether it ran the validator, the action the validator gave
\* and the message list given to the first model call.
Turn(sessions, outcome, message, model_calls, function_calls, validated) ==
    [sessions |-> sessions, outcome |-> outcome, message |-> message,
     model_calls |-> model_calls, function_calls |-> function_calls,
     validated |-> validated, action |-> None, context |-> <<>>]

\* Faulty variant: the limit compared with the count before this turn's increment.
RateLimitedBeforeCounting(session) == session.message_count - 1 > RateLimit

\* Faulty variant: only the first message over the limit is turned away.
RateLimitedOnce(session) == session.message_count = RateLimit + 1

\* if session['message_count'] > 50
RateLimited(session) == session.message_count > RateLimit

\* Faulty variant: the reset clears the record in place and forgets two counters.
SecurityBranchInPlace(sessions, session_id, session) ==
    LET counted == [session EXCEPT !.security_violations = @ + 1]
    IN  IF counted.security_violations >= ViolationLimit
        THEN Turn(Put(sessions, session_id,
                      [counted EXCEPT !.messages = <<>>, !.security_violations = 0]),
                  "session_reset", "fresh_start", 0, 0, TRUE)
        ELSE Turn(Put(sessions, session_id, counted),
                  "blocked", "safe_travel_only", 0, 0, TRUE)

\* Faulty variant: the reset comes one violation early.
SecurityBranchResetsEarly(sessions, session_id, session) ==
    LET counted == [session EXCEPT !.security_violations = @ + 1]
    IN  IF counted.security_violations >= ViolationLimit - 1
        THEN Turn(Put(sessions, session_id, NewSession),
                  "session_reset", "fresh_start", 0, 0, TRUE)
        ELSE Turn(Put(sessions, session_id, counted),
                  "blocked", "safe_travel_only", 0, 0, TRUE)

\* Faulty variant: the reset at the limit clears the whole store.
SecurityBranchClearsStore(sessions, session_id, session) ==
    LET counted == [session EXCEPT !.security_violations = @ + 1]
    IN  IF counted.security_violations >= ViolationLimit
        THEN Turn(Put(<< >>, session_id, NewSession),
                  "session_reset", "fresh_start", 0, 0, TRUE)
        ELSE Turn(Put(sessions, session_id, counted),
                  "blocked", "safe_travel_only", 0, 0, TRUE)

\* The unsafe branch: count the violation, reset at the limit.
SecurityBranch(sessions, session_id, session) ==
    LET counted == [session EXCEPT !.security_violations = @ + 1]
    IN  IF counted.security_violations >= ViolationLimit
        THEN Turn(Put(sessions, session_id, NewSession),
                  "session_reset", "fresh_start", 0, 0, TRUE)
        ELSE Turn(Put(sessions, session_id, counted),
                  "blocked", "safe_travel_only", 0, 0, TRUE)

\* Faulty variant: the second warning repeats the first.
WarningMessageFlat(off_topic_warnings) ==
    IF off_topic_warnings <= 2 THEN "gentle_redirect" ELSE "terse_restatement"

\* The progressive warning system.
WarningMessage(off_topic_warnings) ==
    IF off_topic_warnings = 1 THEN "gentle_redirect"
    ELSE IF off_topic_warnings = 2 THEN "firmer_restatement"
    ELSE IF off_topic_warnings >= 3 THEN "terse_restatement"
    ELSE "exclusive"

\* Faulty variant: the canned warning is stored in the history.
OffTopicBranchStores(sessions, session_id, session) ==
    LET warned == [session EXCEPT !.off_topic_warnings = @ + 1,
                                  !.messages = Append(@, AssistantMessage("warning"))]
    IN  Turn(Put(sessions, session_id, warned),
             "off_topic", WarningMessage(warned.off_topic_warnings), 0, 0, TRUE)

\* Faulty variant: the warning clears the security violations.
OffTopicBranchForgives(sessions, session_id, session) ==
    LET warned == [session EXCEPT !.off_topic_warnings = @ + 1,
                                  !.security_violations = 0]
    IN  Turn(Put(sessions, session_id, warned),
             "off_topic", WarningMessage(warned.off_topic_warnings), 0, 0, TRUE)

\* The off-topic branch.
OffTopicBranch(sessions, session_id, session) ==
    LET warned == [session EXCEPT !.off_topic_warnings = @ + 1]
    IN  Turn(Put(sessions, session_id, warned),
             "off_topic", WarningMessage(warned.off_topic_warnings), 0, 0, TRUE)

\* session['messages'].extend(exchange)
Extend(session, exchange) == [session EXCEPT !.messages = @ \o exchange]

\* Faulty variant: the function result is not stored.
FunctionExchangeNoResult(user_message, function_name) ==
    << UserMessage(user_message), function_call_message(function_name),
       AssistantMessage("final_message") >>

\* The exchange stored when the function was executed and the second model
\* call answered.
FunctionExchange(user_message, function_name) ==
    << UserMessage(user_message), function_call_message(function_name),
       function_result_message(function_name), AssistantMessage("final_message") >>

\* The exchange stored when the second model call failed.
FallbackExchange(user_message, function_name) ==
    << UserMessage(user_message), AssistantMessage("fallback_msg") >>

\* The exchange stored for a reply without function call.
RegularExchange(user_message) ==
    << UserMessage(user_message), AssistantMessage("regular_response") >>

\* Faulty variant: the user message is stored before the function is executed.
FunctionBranchStoresFirst(sessions, session_id, session, user_message, response, final_response) ==
    LET stored == Extend(session, <<UserMessage(user_message)>>)
    IN  IF response.arguments = "malformed"
        THEN Turn(Put(sessions, session_id, session),
                  "error", "invalid_function_call", 1, 0, TRUE)
        ELSE IF response.name \notin function_mapping
        THEN Turn(Put(sessions, session_id, session),
                  "error", "unknown_function", 1, 0, TRUE)
        ELSE IF response.arguments = "mismatched"
        THEN Turn(Put(sessions, session_id, stored),
                  "error", "temporarily_unavailable", 1, 0, TRUE)
        ELSE IF final_response.kind # "none"
        THEN Turn(Put(sessions, session_id,
                      Extend(session, FunctionExchange(user_message, response.name))),
                  "answered", "final_message", 2, 1, TRUE)
        ELSE Turn(Put(sessions, session_id,
                      Extend(session, FallbackExchange(user_message, response.name))),
                  "answered", "fallback_msg", 2, 1, TRUE)

\* Faulty variant: a name that is not registered is invoked all the same.
FunctionBranchAdHoc(sessions, session_id, session, user_message, response, final_response) ==
    IF response.arguments = "malformed"
    THEN Turn(Put(sessions, session_id, session),
              "error", "invalid_function_call", 1, 0, TRUE)
    ELSE IF response.arguments = "mismatched"
    THEN Turn(Put(sessions, session_id, session),
              "error", "temporarily_unavailable", 1, 0, TRUE)
    ELSE IF final_response.kind # "none"
    THEN Turn(Put(sessions, session_id,
                  Extend(session, FunctionExchange(user_message, response.name))),
              "answered", "final_message", 2, 1, TRUE)
    ELSE Turn(Put(sessions, session_id,
                  Extend(session, FallbackExchange(user_message, response.name))),
              "answered", "fallback_msg", 2, 1, TRUE)

\* The function-call branch: parse the arguments, look the name up, execute,
\* call the model again.
FunctionBranch(sessions, session_id, session, user_message, response, final_response) ==
    IF response.arguments = "malformed"
    THEN Turn(Put(sessions, session_id, session),
              "error", "invalid_function_call", 1, 0, TRUE)
    ELSE IF response.name \notin function_mapping
    THEN Turn(Put(sessions, session_id, session),
              "error", "unknown_function", 1, 0, TRUE)
    ELSE IF response.arguments = "mismatched"
    THEN \* TypeError, caught by the handler of the whole turn
         Turn(Put(sessions, session_id, session),
              "error", "temporarily_unavailable", 1, 0, TRUE)
    ELSE IF final_response.kind # "none"
    THEN Turn(Put(sessions, session_id,
                  Extend(session, FunctionExchange(user_message, response.name))),
              "answered", "final_message", 2, 1, TRUE)
    ELSE Turn(Put(sessions, session_id,
                  Extend(session, FallbackExchange(user_message, response.name))),
              "answered", "fallback_msg", 2, 1, TRUE)

\* Faulty variant: a failed first call is made once more.
ModelBranchRetries(sessions, session_id, session, user_message, response, final_response) ==
    IF response.kind = "none"
    THEN Turn(Put(sessions, session_id, session),
              "error", "service_unavailable", 2, 0, TRUE)
    ELSE IF response.kind = "function_call"
    THEN FunctionBranch(sessions, session_id, session, user_message,
                        response, final_response)
    ELSE Turn(Put(sessions, session_id,
                  Extend(session, RegularExchange(user_message))),
              "answered", "regular_response", 1, 0, TRUE)

\* The allowed branch: the first model call and what follows it.
ModelBranch(sessions, session_id, session, user_message, response, final_response) ==
    IF response.kind = "none"
    THEN Turn(Put(sessions, session_id, session),
              "error", "service_unavailable", 1, 0, TRUE)
    ELSE IF response.kind = "function_call"
    THEN FunctionBranch(sessions, session_id, session, user_message,
                        response, final_response)
    ELSE Turn(Put(sessions, session_id,
                  Extend(session, RegularExchange(user_message))),
              "answered", "regular_response", 1, 0, TRUE)

\* session['message_count'] += 1
CountMessage(session) == [session EXCEPT !.message_count = @ + 1]

\* The messages sent to the chat endpoint: an empty and a blank one, an
\* unsafe one, an off-topic one and a travel query (to be stripped).
ChatTexts ==
    { <<>>, <<" ">>, <<"bomb">>, <<"hello">>, <<" ", "visit", " ", "paris">> }

\* security_validator.validate_content(user_message, session_id), tabulated
\* over the messages that reach it.
ValidationOf ==
    [user_message \in {Strip(t) : t \in ChatTexts}, suggestion \in Suggestions |->
        validate_content(Str(user_message), suggestion)]

\* Faulty variant: the message is put into the history before it is validated.
ValidatedStoresFirst(sessions, session_id, session, user_message, suggestion, response, final_response) ==
    LET validation_result == ValidationOf[user_message, suggestion]
        stored == Extend(session, <<UserMessage(user_message)>>)
        turn == IF ~validation_result.is_safe
                THEN SecurityBranch(sessions, session_id, stored)
                ELSE IF ~validation_result.is_travel
                THEN OffTopicBranch(sessions, session_id, stored)
                ELSE ModelBranch(sessions, session_id, session, user_message,
                                 response, final_response)
    IN  [turn EXCEPT !.action = validation_result.action,
                     !.context = IF validation_result.is_safe
                                    /\ validation_result.is_travel
                                 THEN Context(session, user_message) ELSE <<>>]

\* The turn once the session is loaded and counted.
Validated(sessions, session_id, session, user_message, suggestion, response, final_response) ==
    LET validation_result == ValidationOf[user_message, suggestion]
        turn == IF ~validation_result.is_safe
                THEN SecurityBranch(sessions, session_id, session)
                ELSE IF ~validation_result.is_travel
                THEN OffTopicBranch(sessions, session_id, session)
                ELSE ModelBranch(sessions, session_id, session, user_message,
                                 response, final_response)
    IN  [turn EXCEPT !.action = validation_result.action,
                     !.context = IF validation_result.is_safe
                                    /\ validation_result.is_travel
                                 THEN Context(session, user_message) ELSE <<>>]

\* chat(): request is the 'message' of the request body, a string or not.
chat(sessions, session_id, request, suggestion, response, final_response) ==
    IF ~request.is_str
    THEN \* .strip() raises AttributeError, caught by the handler of the turn
         Turn(sessions, "error", "temporarily_unavailable", 0, 0, FALSE)
    ELSE
    LET user_message == Strip(request.chunks)
        session == CountMessage(IF session_id \in DOMAIN sessions
                                THEN sessions[session_id] ELSE NewSession)
    IN  IF user_message = <<>>
        THEN Turn(sessions, "error", "no_message", 0, 0, FALSE)
        ELSE IF RateLimited(session)
        THEN Turn(Put(sessions, session_id, session),
                  "rate_limited", "reset_required", 0, 0, FALSE)
        ELSE Validated(sessions, session_id, session, user_message, suggestion,
                       response, final_response)

\* Faulty variant: the reset leaves a cleared record under the key.
reset_chat_keeps_record(sessions, session_id) ==
    [sessions |-> IF session_id \in DOMAIN sessions
                  THEN Put(sessions, session_id, NewSession) ELSE sessions,
     outcome |-> "session_reset", message |-> "chat_reset"]

\* Faulty variant: the record is deleted without the test for the key; the
\* KeyError of a key that has no record is caught by the handler.
reset_chat_unguarded(sessions, session_id) ==
    IF session_id \in DOMAIN sessions
    THEN [sessions |-> Del(sessions, session_id),
          outcome |-> "session_reset", message |-> "chat_reset"]
    ELSE [sessions |-> sessions, outcome |-> "error", message |-> "failed_to_reset"]

\* reset_chat(): the store it leaves and the response it returns.
reset_chat(sessions, session_id) ==
    [sessions |-> IF session_id \in DOMAIN sessions
                  THEN Del(sessions, session_id) ELSE sessions,
     outcome |-> "session_reset", message |-> "chat_reset"]

----------------------------------------------------------------------------
(* The requests of the sequential specification.                           *)

ChatRequests == {Str(t) : t \in ChatTexts} \cup {NotStr}

\* What the collaborators of a turn do: the validator's random suggestion
\* and the model's answers to the first and to the second call.
Quiet == [suggestion |-> 1, response |-> NoResponse, final_response |-> NoResponse]

\* The choices a request can consume: a suggestion when the validator
\* redirects it, the model's answers when the validator allows it (a second
\* answer only after a function call), none otherwise.
EnvironmentsOf(request) ==
    IF ~request.is_str \/ Strip(request.chunks) = <<>> THEN {Quiet}
    ELSE LET action == ValidationOf[Strip(request.chunks), 1].action
         IN  IF action = "redirect"
             THEN {[Quiet EXCEPT !.suggestion = s] : s \in Suggestions}
             ELSE IF action = "allow"
             THEN UNION {{[Quiet EXCEPT !.response = r, !.final_response = f] :
                            f \in IF r.kind = "function_call"
                                  THEN FinalResponses ELSE {NoResponse}} :
                         r \in ModelResponses}
             ELSE {Quiet}

\* The observation of a request: the operation and its session, whether the
\* message of a chat request is no text, a blank text or a text, whether the
\* store had a record for the session when the request came, whether the
\* request is a reset that follows a reset of the same session, what the
\* turn did, and the model's answers the turn consumed.
NoRequest ==
    [op |-> "none", session_id |-> None, request |-> None, had_session |-> FALSE,
     repeated |-> FALSE, outcome |-> None, message |-> None,
     model_calls |-> 0, function_calls |-> 0, validated |-> FALSE,
     action |-> None, context |-> <<>>, response |-> NoResponse,
     final_response |-> NoResponse]

Observed(session_id, request, turn, env) ==
    [op |-> "chat", session_id |-> session_id,
     request |-> IF ~request.is_str THEN "no_text"
                 ELSE IF Strip(request.chunks) = <<>> THEN "blank" ELSE "text",
     had_session |-> session_id \in DOMAIN conversation_sessions,
     repeated |-> FALSE,
     outcome |-> turn.outcome, message |-> turn.message,
     model_calls |-> turn.model_calls, function_calls |-> turn.function_calls,
     validated |-> turn.validated, action |-> turn.action,
     context |-> turn.context,
     response |-> IF turn.model_calls >= 1 THEN env.response ELSE NoResponse,
     final_response |-> IF turn.model_calls >= 2 THEN env.final_response
                        ELSE NoResponse]

NoThreads == <<>>

\* The bounds on what is sent to a session.
WithinBounds(sessions, max_count) ==
    \A k \in DOMAIN sessions :
        /\ sessions[k].message_count <= max_count
        /\ sessions[k].off_topic_warnings <= MaxWarnings
        /\ Len(sessions[k].messages) <= MaxMessages

\* One request to /api/chat, handled from start to end.
Chat(ids, max_count) ==
    \E session_id \in ids, request \in ChatRequests :
      \E env \in EnvironmentsOf(request) :
        LET turn == chat(conversation_sessions, session_id, request, env.suggestion,
                         env.response, env.final_response)
        IN  /\ WithinBounds(turn.sessions, max_count)
            /\ conversation_sessions' = turn.sessions
            /\ last' = Observed(session_id, request, turn, env)
            /\ UNCHANGED <<text, validation, threads, queries>>

\* One request to /api/reset-chat.
ResetChat(ids) ==
    \E session_id \in ids :
      LET result == reset_chat(conversation_sessions, session_id)
      IN
        /\ conversation_sessions' = result.sessions
        /\ last' = [NoRequest EXCEPT
                      !.op = "reset", !.session_id = session_id,
                      !.had_session = session_id \in DOMAIN conversation_sessions,
                      !.repeated = (last.op = "reset" /\ last.session_id = session_id),
                      !.outcome = result.outcome, !.message = result.message]
        /\ UNCHANGED <<text, validation, threads, queries>>

\* One request to /api/session-status.
SessionStatus(ids) ==
    \E session_id \in ids :
        /\ last' = [NoRequest EXCEPT
                      !.op = "status", !.session_id = session_id,
                      !.had_session = session_id \in DOMAIN conversation_sessions,
                      !.outcome = IF session_id \in DOMAIN conversation_sessions
                                  THEN "active" ELSE "inactive"]
        /\ UNCHANGED <<conversation_sessions, text, validation, threads, queries>>

Init ==
    /\ conversation_sessions = << >>
    /\ last = NoRequest
    /\ text = NotStr
    /\ validation = NoResult
    /\ threads = NoThreads
    /\ NothingLoaded

Next ==
    \/ Chat({"s1"}, MaxCount)
    \/ ResetChat({"s1"})
    \/ SessionStatus({"s1"})

Spec == Init /\ [][Next]_vars

\* The same requests, sent to two sessions.
SessionIds == {"s1", "s2"}

NextKeys ==
    \/ Chat(SessionIds, MaxKeysCount)
    \/ ResetChat(SessionIds)
    \/ SessionStatus(SessionIds)

SpecKeys == Init /\ [][NextKeys]_vars

----------------------------------------------------------------------------
(* The validator under test: validate_content applied to every text of up  *)
(* to MaxTextLen chunks over an alphabet that has a high-threat keyword,   *)
(* a keyword of another threat category in upper case, a travel keyword    *)
(* that is a travel phrase too, a chunk that glues to its neighbours, and   *)
(* the two separators.                                                     *)

Alphabet == {"bomb", "SEX", "visit", "s", " ", "-"}

RECURSIVE TextsUpTo(_)
TextsUpTo(n) ==
    IF n = 0 THEN {<<>>}
    ELSE LET shorter == TextsUpTo(n - 1)
         IN  shorter \cup {Append(t, c) : t \in shorter, c \in Alphabet}

Arguments == {Str(t) : t \in TextsUpTo(MaxTextLen)} \cup {NotStr}

InitValidator ==
    /\ conversation_sessions = << >>
    /\ last = NoRequest
    /\ text \in Arguments
    /\ validation = NoResult
    /\ threads = NoThreads
    /\ NothingLoaded

\* security_validator.validate_content(text)
Validate ==
    /\ validation = NoResult
    /\ \E suggestion \in Suggestions :
          validation' = validate_content(text, suggestion)
    /\ UNCHANGED <<conversation_sessions, last, text, threads, queries>>

SpecValidator == InitValidator /\ [][Validate]_vars

----------------------------------------------------------------------------
(* The query functions under test: the datasets are what the loader read   *)
(* (rows in the order of the file, or nothing when loading failed), and a  *)
(* step is one call of a query function with arguments decoded from JSON.  *)
(* The functions read the datasets and write nothing, so a behaviour is    *)
(* one call.                                                               *)

HotelRow(hotel_id, city, category, price_per_night, rating, availability) ==
    [hotel_id |-> hotel_id, city |-> city, category |-> category,
     price_per_night |-> price_per_night, rating |-> rating,
     availability |-> availability]

\* The rows a hotel file is made of (ratings in tenths).
HotelRows ==
    << HotelRow(1, "Paris", "Luxury", 400, 48, TRUE),
       HotelRow(2, "Paris", "budget", 60, 40, TRUE),
       HotelRow(3, "Paris", "mid-range", 150, 48, FALSE),
       HotelRow(4, "Rome", "budget", 60, 45, TRUE),
       HotelRow(5, "Paris", "budget", 0, 40, TRUE) >>

AttractionRow(attraction_id, city, category, entry_fee, rating, duration_hours) ==
    [attraction_id |-> attraction_id, city |-> city, category |-> category,
     entry_fee |-> entry_fee, rating |-> rating, duration_hours |-> duration_hours]

\* The rows an attraction file is made of; two rows have the same id.
AttractionRows ==
    << AttractionRow(1, "Paris", "Museum", 20, 48, 3),
       AttractionRow(2, "Paris", "Landmark", 0, 48, 2),
       AttractionRow(3, "Paris", "Museum", 15, 45, 2),
       AttractionRow(4, "Paris", "Park", 0, 40, 1),
       AttractionRow(1, "Paris", "Landmark", 10, 47, 1),
       AttractionRow(6, "Rome", "Museum", 25, 46, 2) >>

\* An attraction file of n rows, all of Paris, in three categories.
CityAttractions(n) ==
    [i \in 1..n |->
        AttractionRow(10 + i, "Paris",
                      CASE i % 3 = 1 -> "Museum" [] i % 3 = 2 -> "Landmark"
                        [] OTHER -> "Park",
                      i, 40 + (i % 4), 1 + (i % 2))]

\* The files of up to n rows: the rows chosen, in the order above.
Tables(rows, n) ==
    LET Indexed == [i \in 1..Len(rows) |-> [index |-> i, row |-> rows[i]]]
        Chosen(c) == SelectSeq(Indexed, LAMBDA e : e.index \in c)
    IN  {[i \in 1..Len(Chosen(c)) |-> Chosen(c)[i].row] :
            c \in {c \in SUBSET (1..Len(rows)) : Cardinality(c) <= n}}

\* A day plan of a curated template.
TemplateDay(day, estimated_cost) ==
    [day |-> day, attraction_details |-> <<>>, estimated_cost |-> estimated_cost,
     total_duration |-> 0]

\* No template, or templates for Paris: one day, two days and a week.
TemplateChoices ==
    {NoTemplates,
     [city \in {"Paris"} |->
        [days \in {1, 2, 7} |->
            [day \in 1..days |-> TemplateDay(day, 100 + 20 * (day - 1))]]]}

\* What the process loaded: every hotel file with one attraction file, every
\* attraction file and template file with one hotel file, the long
\* attraction files of one city, and nothing at all (the loader's except
\* branch).
Loaded ==
    {[hotels |-> h, attractions |-> SubSeq(AttractionRows, 1, 3),
      templates |-> NoTemplates] : h \in Tables(HotelRows, MaxHotels)}
    \cup {[hotels |-> SubSeq(HotelRows, 1, 2), attractions |-> a, templates |-> t] :
              a \in Tables(AttractionRows, MaxAttractions), t \in TemplateChoices}
    \cup {[hotels |-> SubSeq(HotelRows, 1, 2), attractions |-> CityAttractions(n),
           templates |-> t] :
              n \in (MaxCityAttractions - 2)..MaxCityAttractions, t \in TemplateChoices}
    \cup {[hotels |-> <<>>, attractions |-> <<>>, templates |-> NoTemplates]}

CityArgs ==
    {PyNone, PyInt(5), PyStr(""), PyStr("  "), PyStr(" PARIS "), PyStr("Rome"),
     PyStr("Atlantis")}
DurationArgs ==
    {PyNone, PyStr("2"), PyBool(TRUE), PyInt(MaxItineraryDays + 1),
     PyInt(MaxBudgetDays + 1)} \cup {PyInt(d) : d \in 0..MaxDays}
        \cup {PyInt(d) : d \in {4} \cup 6..MaxItineraryDays}

InitQueries ==
    /\ conversation_sessions = << >>
    /\ last = NoRequest
    /\ text = NotStr
    /\ validation = NoResult
    /\ threads = NoThreads
    /\ \E loaded \in Loaded :
          /\ hotels_df = loaded.hotels
          /\ attractions_df = loaded.attractions
          /\ itinerary_templates = loaded.templates
    /\ query = NoQuery

chatVars == <<conversation_sessions, last, text, validation, threads>>

SearchHotels ==
    /\ query = NoQuery
    /\ \E city \in CityArgs,
          budget_max \in {PyNone, PyInt(0), PyInt(100), PyInt(MaxBudget),
                          PyInt(MaxBudget + 1), PyInt(-1), PyFloat(0),
                          PyFloat(100), PyStr("400"), PyBool(TRUE)},
          category \in {PyNone, PyStr("LUXURY"), PyStr("budget"), PyStr("spa"),
                        PyInt(5)},
          check_availability \in {PyBool(TRUE), PyBool(FALSE)} :
          query' = [NoQuery EXCEPT
                      !.function = "search_hotels", !.city = city,
                      !.budget_max = budget_max, !.category = category,
                      !.check_availability = check_availability,
                      !.result = search_hotels(city, budget_max, category,
                                               check_availability)]
    /\ UNCHANGED <<chatVars, hotels_df, attractions_df, itinerary_templates>>

GetAttractions ==
    /\ query = NoQuery
    /\ \E city \in CityArgs,
          category \in {PyNone, PyStr("Museum"), PyStr("museum"), PyInt(5)},
          max_entry_fee \in {PyNone, PyInt(0), PyInt(15), PyInt(-1), PyFloat(10),
                             PyStr("15")} :
          query' = [NoQuery EXCEPT
                      !.function = "get_attractions", !.city = city,
                      !.category = category, !.max_entry_fee = max_entry_fee,
                      !.result = get_attractions(city, category, max_entry_fee)]
    /\ UNCHANGED <<chatVars, hotels_df, attractions_df, itinerary_templates>>

CreateItinerary ==
    /\ query = NoQuery
    /\ \E city \in CityArgs, duration_days \in DurationArgs :
          query' = [NoQuery EXCEPT
                      !.function = "create_itinerary", !.city = city,
                      !.duration_days = duration_days,
                      !.result = create_itinerary(city, duration_days, PyNone)]
    /\ UNCHANGED <<chatVars, hotels_df, attractions_df, itinerary_templates>>

GetTravelBudgetEstimate ==
    /\ query = NoQuery
    /\ \E city \in CityArgs, duration_days \in DurationArgs,
          category \in {Absent, PyNone, PyStr("luxury"), PyStr("LUXURY"),
                        PyStr("budget")} :
          query' = [NoQuery EXCEPT
                      !.function = "get_travel_budget_estimate", !.city = city,
                      !.duration_days = duration_days, !.category = category,
                      !.result = get_travel_budget_estimate(city, duration_days,
                                                            category)]
    /\ UNCHANGED <<chatVars, hotels_df, attractions_df, itinerary_templates>>

CheckWeatherRecommendation ==
    /\ query = NoQuery
    /\ \E city \in CityArgs \cup {PyStr(c) : c \in DOMAIN weather_data}
                           \cup {PyStr("bangkok"), PyStr("new york")},
          travel_month \in {PyNone, PyInt(7), PyStr(""), PyStr("july"),
                            PyStr(" JULY "), PyStr("november "), PyStr("Smarch"),
                            PyStr("Jul")} \cup {PyStr(m) : m \in valid_months} :
          query' = [NoQuery EXCEPT
                      !.function = "check_weather_recommendation", !.city = city,
                      !.travel_month = travel_month,
                      !.result = check_weather_recommendation(city, travel_month)]
    /\ UNCHANGED <<chatVars, hotels_df, attractions_df, itinerary_templates>>

NextQueries ==
    \/ SearchHotels
    \/ GetAttractions
    \/ CreateItinerary
    \/ GetTravelBudgetEstimate
    \/ CheckWeatherRecommendation

SpecQueries == InitQueries /\ [][NextQueries]_vars

----------------------------------------------------------------------------
(* Long conversations: chosen messages, sent to one session until its      *)
(* history is longer than the context of a model call, or until the        *)
(* session is rate-limited.                                                *)

\* One request to /api/chat with one of the messages; the model answers a
\* travel query with one of the responses and, after a function call, with
\* one of the final responses.
ChatWith(messages, responses, finals, max_count, max_history) ==
    \E request \in {Str(t) : t \in messages} :
      \E env \in {e \in EnvironmentsOf(request) :
                    /\ e.response \in responses
                    /\ e.response.kind = "function_call"
                          => e.final_response \in finals} :
        LET turn == chat(conversation_sessions, "s1", request, env.suggestion,
                         env.response, env.final_response)
        IN  /\ \A k \in DOMAIN turn.sessions :
                  /\ turn.sessions[k].message_count <= max_count
                  /\ Len(turn.sessions[k].messages) <= max_history
            /\ conversation_sessions' = turn.sessions
            /\ last' = Observed("s1", request, turn, env)
            /\ UNCHANGED <<text, validation, threads, queries>>

\* Travel queries only, answered in every way, up to a history of MaxHistory.
SpecContext ==
    Init /\ [][ChatWith({<<" ", "visit", " ", "paris">>},
                        {NoResponse, TextResponse,
                         FunctionCall("search_hotels", "accepted")},
                        FinalResponses, MaxTurns, MaxHistory)]_vars

\* Travel queries that the model answers with a function call and a final
\* text, or not at all, unsafe messages and resets, up to MaxCount messages:
\* the history grows by four messages with every answered turn.
SpecLongest ==
    Init /\ [][ \/ ChatWith({<<" ", "visit", " ", "paris">>, <<"bomb">>},
                            {NoResponse, FunctionCall("search_hotels", "accepted")},
                            {TextResponse}, MaxCount, 4 * MaxCount)
                \/ ResetChat({"s1"}) ]_vars


----------------------------------------------------------------------------
(* The claims about a chat turn.  A step of Spec is one request; last'     *)
(* observes it, the unprimed store is the store before it.                 *)

\* The record a turn for session_id starts from.
Before(session_id) ==
    IF session_id \in DOMAIN conversation_sessions
    THEN conversation_sessions[session_id] ELSE NewSession

\* The history of session_id after the step.
HistoryAfter(session_id) ==
    IF session_id \in DOMAIN conversation_sessions'
    THEN conversation_sessions'[session_id].messages ELSE <<>>

IsFresh(record) ==
    /\ record.messages = <<>>
    /\ record.security_violations = 0
    /\ record.off_topic_warnings = 0
    /\ record.message_count = 0

\* C1: a chat turn whose message validates unsafe and brings
\* security_violations to 2 leaves a fresh record for the session: empty
\* history and all three counters 0; so the second of two consecutive unsafe
\* messages resets the session.
C1_SecurityReset ==
    [][ /\ ( /\ last'.op = "chat"
             /\ last'.action = "block"
             /\ Before(last'.session_id).security_violations + 1 = 2 )
           => /\ last'.session_id \in DOMAIN conversation_sessions'
              /\ IsFresh(conversation_sessions'[last'.session_id])
        /\ ( /\ last.op = "chat" /\ last.action = "block"
             /\ last.outcome = "blocked"
             /\ last'.op = "chat" /\ last'.action = "block"
             /\ last'.session_id = last.session_id )
           => /\ last'.outcome = "session_reset"
              /\ IsFresh(conversation_sessions'[last'.session_id]) ]_vars

\* C1 witness: a turn was unsafe and reset a session.
C1_Witness ==
    /\ last.op = "chat" /\ last.action = "block" /\ last.outcome = "session_reset"
    /\ IsFresh(conversation_sessions[last.session_id])

\* C2: a chat turn that raises message_count above 50 answers with the
\* rate-limit response, runs neither the validator nor the model nor a query
\* function, and leaves the record in the store with security_violations,
\* off_topic_warnings and history as they were.
C2_RateLimit ==
    [][ ( /\ last'.op = "chat"
          /\ last'.session_id \in DOMAIN conversation_sessions'
          /\ conversation_sessions'[last'.session_id].message_count
                = Before(last'.session_id).message_count + 1
          /\ conversation_sessions'[last'.session_id].message_count > 50 )
        => /\ last'.outcome = "rate_limited"
           /\ ~last'.validated
           /\ last'.model_calls = 0 /\ last'.function_calls = 0
           /\ conversation_sessions'[last'.session_id]
                = [Before(last'.session_id) EXCEPT !.message_count = @ + 1] ]_vars

\* C2 witness: a turn was rate-limited and the record is still there.
C2_Witness ==
    /\ last.op = "chat" /\ last.outcome = "rate_limited"
    /\ conversation_sessions[last.session_id].message_count = 51

Rejected == last'.op = "chat" /\ last'.action \in {"block", "redirect"}

\* C5, as stated: the model is invoked only in a turn that was not
\* rate-limited and that the validator allowed; a turn whose message is unsafe
\* or off-topic invokes neither the model nor a query function and leaves the
\* history as it was.
C5_RejectedKeepsHistory ==
    [][ /\ (last'.op = "chat" /\ last'.model_calls > 0)
           => (last'.outcome # "rate_limited" /\ last'.action = "allow")
        /\ Rejected
           => /\ last'.model_calls = 0 /\ last'.function_calls = 0
              /\ HistoryAfter(last'.session_id)
                    = Before(last'.session_id).messages ]_vars

\* C5, amended: the same, but the history is left as it was unless the unsafe
\* turn is the one that resets the session, which empties it; apart from that
\* reset only the turn's counters change.
C5_RejectedAddsNothing ==
    [][ /\ (last'.op = "chat" /\ last'.model_calls > 0)
           => (last'.outcome # "rate_limited" /\ last'.action = "allow")
        /\ Rejected
           => /\ last'.model_calls = 0 /\ last'.function_calls = 0
              /\ conversation_sessions'[last'.session_id]
                   = IF last'.outcome = "session_reset" THEN NewSession
                     ELSE IF last'.action = "block"
                     THEN [Before(last'.session_id) EXCEPT
                             !.message_count = @ + 1, !.security_violations = @ + 1]
                     ELSE [Before(last'.session_id) EXCEPT
                             !.message_count = @ + 1, !.off_topic_warnings = @ + 1]
      ]_vars

\* C5 witness: an off-topic turn in a session that has a history.
C5_Witness ==
    /\ last.op = "chat" /\ last.action = "redirect" /\ last.model_calls = 0
    /\ conversation_sessions[last.session_id].messages # <<>>

\* The roles of the messages of a history.
Roles(messages) == [i \in 1..Len(messages) |-> messages[i].role]

\* The step appends to the history of its session exchange-many messages
\* with the given roles.
Appends(roles) ==
    LET before == Before(last'.session_id).messages
        after == HistoryAfter(last'.session_id)
    IN  /\ Len(after) = Len(before) + Len(roles)
        /\ SubSeq(after, 1, Len(before)) = before
        /\ Roles(SubSeq(after, Len(before) + 1, Len(after))) = roles

\* The four messages of a full exchange, in order: the user message, the
\* function call, the function result, the final reply.
IsFullExchange(exchange) ==
    /\ Roles(exchange) = <<"user", "assistant", "function", "assistant">>
    /\ exchange[2].function_call # None
    /\ exchange[3].name = exchange[2].function_call
    /\ exchange[4].function_call = None

\* C6, as stated: a turn that dispatched a registered query function grows
\* the history by exactly four messages (user message, function call,
\* function result, final reply), also when the second model call failed.
C6_FourMessages ==
    [][ (last'.op = "chat" /\ last'.function_calls > 0)
        => /\ Appends(<<"user", "assistant", "function", "assistant">>)
           /\ IsFullExchange(LastN(HistoryAfter(last'.session_id), 4)) ]_vars

\* C6, amended: such a turn grows the history by those four messages when the
\* second model call answered, and by exactly two (the user message and the
\* templated fallback reply) when it failed.
C6_FourOrTwoMessages ==
    [][ (last'.op = "chat" /\ last'.function_calls > 0)
        => IF last'.final_response.kind # "none"
           THEN /\ Appends(<<"user", "assistant", "function", "assistant">>)
                /\ IsFullExchange(LastN(HistoryAfter(last'.session_id), 4))
           ELSE /\ Appends(<<"user", "assistant">>)
                /\ LastN(HistoryAfter(last'.session_id), 1)
                      = <<AssistantMessage("fallback_msg")>> ]_vars

\* C6 witness: a function was executed, the second model call failed, and
\* the history grew from two messages to four.
C6_Witness ==
    /\ last.op = "chat" /\ last.function_calls = 1
    /\ last.model_calls = 2 /\ last.final_response.kind = "none"
    /\ Len(conversation_sessions[last.session_id].messages) = 4

\* C7: when the model's function call has malformed arguments or names a
\* function that is not registered, the turn ends with an error response, no
\* query function is executed, the model is not called again and the history
\* is as it was; the two errors differ.
C7_BadFunctionCall ==
    [][ ( /\ last'.op = "chat" /\ last'.response.kind = "function_call"
          /\ \/ last'.response.arguments = "malformed"
             \/ last'.response.name \notin function_mapping )
        => /\ last'.outcome = "error"
           /\ last'.function_calls = 0
           /\ last'.model_calls = 1
           /\ HistoryAfter(last'.session_id) = Before(last'.session_id).messages
           /\ last'.message = IF last'.response.arguments = "malformed"
                              THEN "invalid_function_call" ELSE "unknown_function"
      ]_vars

\* C7 witness: an unknown name with well-formed arguments was rejected in a
\* session that has a history.
C7_Witness ==
    /\ last.op = "chat" /\ last.response.kind = "function_call"
    /\ last.response.name \notin function_mapping
    /\ last.response.arguments = "accepted"
    /\ last.message = "unknown_function"
    /\ conversation_sessions[last.session_id].messages # <<>>

\* C8: a turn invokes the model at most twice, the second time only after a
\* query function was executed, and never repeats a failed invocation: a
\* failed first call ends the turn with an error response and the history as
\* it was.
C8_NoRetry ==
    [][ last'.op = "chat"
        => /\ last'.model_calls <= 2
           /\ last'.model_calls = 2 => last'.function_calls = 1
           /\ (last'.validated /\ last'.action = "allow"
                 /\ last'.response.kind = "none")
              => /\ last'.model_calls = 1
                 /\ last'.outcome = "error"
                 /\ HistoryAfter(last'.session_id)
                       = Before(last'.session_id).messages ]_vars

\* C8 witness: the first model call failed in a session that has a history.
C8_Witness ==
    /\ last.op = "chat" /\ last.action = "allow" /\ last.model_calls = 1
    /\ last.response.kind = "none" /\ last.outcome = "error"
    /\ conversation_sessions[last.session_id].messages # <<>>

\* C12: a chat turn whose message validates unsafe while the session's
\* security_violations was 0 answers with the blocked response, sets
\* security_violations to 1 and does not reset the session: the record stays
\* in the store, with its history and its off_topic_warnings as they were.
C12_FirstViolationBlocks ==
    [][ ( /\ last'.op = "chat" /\ last'.validated /\ last'.action = "block"
          /\ Before(last'.session_id).security_violations = 0 )
        => /\ last'.outcome = "blocked"
           /\ last'.model_calls = 0 /\ last'.function_calls = 0
           /\ last'.session_id \in DOMAIN conversation_sessions'
           /\ conversation_sessions'[last'.session_id].security_violations = 1
           /\ conversation_sessions'[last'.session_id].messages
                 = Before(last'.session_id).messages
           /\ conversation_sessions'[last'.session_id].off_topic_warnings
                 = Before(last'.session_id).off_topic_warnings ]_vars

\* C12 witness: a first unsafe message was blocked in a session that has a
\* history and an off-topic warning.
C12_Witness ==
    /\ last.op = "chat" /\ last.action = "block" /\ last.outcome = "blocked"
    /\ conversation_sessions[last.session_id].security_violations = 1
    /\ conversation_sessions[last.session_id].messages # <<>>
    /\ conversation_sessions[last.session_id].off_topic_warnings > 0

\* C13, as stated: after an explicit reset of a session key the store still
\* holds a record for the key, with empty history and all counters 0.
C13_ResetKeepsKey ==
    [][ (last'.op = "reset" /\ last'.had_session)
        => /\ last'.session_id \in DOMAIN conversation_sessions'
           /\ IsFresh(conversation_sessions'[last'.session_id]) ]_vars

\* C13, amended: an explicit reset of a session key leaves no
\* record for the key in the store; a status query that follows reports the
\* session inactive, and the chat turn that next reaches the session starts
\* from a new zeroed record (its message_count is 1 after that turn).
C13_ResetRemovesKey ==
    [][ /\ last'.op = "reset"
           => last'.session_id \notin DOMAIN conversation_sessions'
        /\ (last.op = "reset" /\ last'.op = "status"
               /\ last'.session_id = last.session_id)
           => last'.outcome = "inactive"
        /\ (last.op = "reset" /\ last'.op = "chat"
               /\ last'.session_id = last.session_id
               /\ last'.session_id \in DOMAIN conversation_sessions')
           => /\ conversation_sessions'[last'.session_id].message_count = 1
              /\ Len(conversation_sessions'[last'.session_id].messages) <= 4
      ]_vars

\* C13 witness: the explicit reset of a session that had a record.
C13_Witness ==
    /\ last.op = "reset" /\ last.had_session
    /\ last.session_id \notin DOMAIN conversation_sessions

\* C14: two resets in a row of the same key: both succeed and the store
\* after the second equals the store after the first.
C14_ResetIdempotent ==
    [][ (last.op = "reset" /\ last'.op = "reset"
           /\ last'.session_id = last.session_id)
        => /\ last.outcome = "session_reset"
           /\ last'.outcome = "session_reset"
           /\ conversation_sessions' = conversation_sessions ]_vars

\* C14 witness: the second of two resets in a row of the same key.
C14_Witness ==
    /\ last.op = "reset" /\ last.repeated /\ ~last.had_session
    /\ last.outcome = "session_reset"

\* C15: a chat turn (with or without the automatic security reset), an
\* explicit reset or a status query for one session key leaves the record of
\* every other key as it was, and neither removes nor creates another key.
C15_OtherKeysUntouched ==
    [][ \A k \in (DOMAIN conversation_sessions \cup DOMAIN conversation_sessions')
                 \ {last'.session_id} :
            /\ k \in DOMAIN conversation_sessions
            /\ k \in DOMAIN conversation_sessions'
            /\ conversation_sessions'[k] = conversation_sessions[k] ]_vars

\* C15 witness: the automatic security reset of one session while the other
\* session has a history and a violation of its own.
C15_Witness ==
    /\ last.op = "chat" /\ last.outcome = "session_reset"
    /\ last.session_id = "s1"
    /\ "s2" \in DOMAIN conversation_sessions
    /\ conversation_sessions["s2"].messages # <<>>
    /\ conversation_sessions["s2"].security_violations = 1

\* C19: whatever arguments the model supplies when a registered query
\* function is dispatched, names and types the function does not expect
\* included, the call returns a payload and no exception reaches the turn.
C19_NoFaultFromDispatch ==
    [][ ( /\ last'.op = "chat"
          /\ last'.response.kind = "function_call"
          /\ last'.response.name \in function_mapping
          /\ last'.response.arguments # "malformed" )
        => /\ last'.function_calls = 1
           /\ last'.message # "temporarily_unavailable" ]_vars

\* The level of the canned off-topic message.
Level(message) ==
    CASE message = "gentle_redirect" -> 1
      [] message = "firmer_restatement" -> 2
      [] message = "terse_restatement" -> 3
      [] OTHER -> 0

ExchangeStarts(messages) == {i \in 1..Len(messages) : messages[i].role = "user"}

\* The last n stored exchanges of a history, whole.
LastExchanges(messages, n) ==
    LET starts == ExchangeStarts(messages)
    IN  IF Cardinality(starts) <= n THEN messages
        ELSE LET from == CHOOSE i \in starts :
                            Cardinality({j \in starts : j >= i}) = n
             IN  SubSeq(messages, from, Len(messages))

\* The travel query of the turn, as chat() stores and sends it.
IsTravelQuery(message) ==
    \E t \in ChatTexts :
        /\ ValidationOf[Strip(t), 1].action = "allow"
        /\ message = UserMessage(Strip(t))

\* C23, as stated: the message list given to the first model call of an
\* allowed turn is the system instruction, the last 10 stored exchanges of
\* the session in their order, every one complete, and the new user message.
C23_LastTenExchanges ==
    [][ (last'.op = "chat" /\ last'.action = "allow")
        => LET history == Before(last'.session_id).messages
               context == last'.context
           IN  /\ Len(context) >= 2
               /\ context[1] = system_message
               /\ IsTravelQuery(context[Len(context)])
               /\ SubSeq(context, 2, Len(context) - 1) = LastExchanges(history, 10)
      ]_vars

\* C23, amended: the message list is the system instruction, the last 10
\* stored messages of the session in their order (the whole history when it
\* has no more than 10), and the new user message; of the oldest exchange in
\* it only the end may be there.
C23_LastTenMessages ==
    [][ (last'.op = "chat" /\ last'.action = "allow")
        => LET history == Before(last'.session_id).messages
               context == last'.context
               n == IF Len(history) <= 10 THEN Len(history) ELSE 10
           IN  /\ Len(context) = n + 2
               /\ context[1] = system_message
               /\ IsTravelQuery(context[Len(context)])
               /\ \A i \in 1..n : context[1 + i] = history[Len(history) - n + i]
      ]_vars

\* C23 witness: the context of a model call begins, after the system
\* instruction, with the function result of an exchange whose first half
\* was left out.
C23_Witness ==
    /\ last.op = "chat" /\ last.action = "allow" /\ last.model_calls >= 1
    /\ Len(last.context) = 12
    /\ last.context[2].role = "function"
    /\ Len(conversation_sessions[last.session_id].messages) = 12

\* C26: safe turns do not clear security_violations.  A turn that validates
\* allowed or off-topic leaves the counter as it was; an unsafe turn in a
\* session that is not rate-limited counts 1 when the counter was 0 and
\* resets the session when it was 1, whatever turns came in between; and at
\* the end of every turn the stored counter of every session is 0 or 1.
C26_ViolationsKept ==
    [][ /\ ( /\ last'.op = "chat" /\ last'.validated
             /\ last'.action \in {"allow", "redirect"} )
           => /\ last'.session_id \in DOMAIN conversation_sessions'
              /\ conversation_sessions'[last'.session_id].security_violations
                    = Before(last'.session_id).security_violations
        /\ ( /\ last'.op = "chat" /\ last'.validated /\ last'.action = "block" )
           => /\ last'.session_id \in DOMAIN conversation_sessions'
              /\ IF Before(last'.session_id).security_violations = 0
                 THEN /\ last'.outcome = "blocked"
                      /\ conversation_sessions'[last'.session_id].security_violations
                            = 1
                 ELSE /\ last'.outcome = "session_reset"
                      /\ IsFresh(conversation_sessions'[last'.session_id])
        /\ \A k \in DOMAIN conversation_sessions' :
              conversation_sessions'[k].security_violations \in {0, 1} ]_vars

\* C26 witness: a travel query was answered and stored in a session that
\* had an unsafe message before, and the violation is still counted.
C26_Witness ==
    /\ last.op = "chat" /\ last.action = "allow" /\ last.outcome = "answered"
    /\ conversation_sessions[last.session_id].security_violations = 1
    /\ conversation_sessions[last.session_id].off_topic_warnings >= 1
    /\ conversation_sessions[last.session_id].messages # <<>>

\* The session of the request has counted more than 50 messages.
OverLimit(session_id) ==
    /\ session_id \in DOMAIN conversation_sessions
    /\ conversation_sessions[session_id].message_count > 50

\* C27, as stated: once message_count has exceeded 50, every later chat turn
\* for the key is rate-limited, whatever its text, and message_count grows by
\* one per turn, while security_violations stays as it is; the record stays
\* in the store until an explicit reset removes it.
C27_RateLimitedWhateverText ==
    [][ /\ (last'.op = "chat" /\ OverLimit(last'.session_id))
           => /\ last'.outcome = "rate_limited"
              /\ ~last'.validated /\ last'.model_calls = 0
              /\ conversation_sessions'
                    = Put(conversation_sessions, last'.session_id,
                          [conversation_sessions[last'.session_id]
                              EXCEPT !.message_count = @ + 1])
        /\ \A k \in DOMAIN conversation_sessions :
              (conversation_sessions[k].message_count > 50 /\ last'.op # "reset")
              => k \in DOMAIN conversation_sessions' ]_vars

\* C27, amended: once message_count has exceeded 50, every later chat turn
\* for the key whose message is a text that is not blank is rate-limited,
\* whatever the text says, and grows message_count by one; a turn whose
\* message is blank or no text is answered with an error and leaves the
\* record as it is.  No turn changes security_violations, so there is no
\* automatic reset, and the record stays in the store until an explicit
\* reset removes it.
C27_RateLimitedUntilReset ==
    [][ /\ (last'.op = "chat" /\ OverLimit(last'.session_id))
           => /\ ~last'.validated /\ last'.model_calls = 0
              /\ IF last'.request = "text"
                 THEN /\ last'.outcome = "rate_limited"
                      /\ conversation_sessions'
                            = Put(conversation_sessions, last'.session_id,
                                  [conversation_sessions[last'.session_id]
                                      EXCEPT !.message_count = @ + 1])
                 ELSE /\ last'.outcome = "error"
                      /\ conversation_sessions' = conversation_sessions
        /\ \A k \in DOMAIN conversation_sessions :
              (conversation_sessions[k].message_count > 50 /\ last'.op # "reset")
              => k \in DOMAIN conversation_sessions' ]_vars

\* C27 witness: the turn after the first rate-limited one was rate-limited
\* too, in a session that has a violation counted.
C27_Witness ==
    /\ last.op = "chat" /\ last.outcome = "rate_limited"
    /\ conversation_sessions[last.session_id].message_count = 52
    /\ conversation_sessions[last.session_id].security_violations = 1

\* The answered turns of a history: each one stored one user message.
AnsweredTurns(messages) == Cardinality(ExchangeStarts(messages))

\* C28: under sequential turns the history of a session is at most 4 times
\* as long as the number of answered turns since the session's creation or
\* last reset, no more than 50 turns are answered, and so the history never
\* exceeds 200 messages; the history changes only by an answered turn, which
\* appends its exchange of up to four messages, and by a reset, which
\* empties it.
C28_HistoryBounded ==
    [][ /\ \A k \in DOMAIN conversation_sessions' :
              LET messages == conversation_sessions'[k].messages
              IN  /\ Len(messages) <= 4 * AnsweredTurns(messages)
                  /\ AnsweredTurns(messages) <= conversation_sessions'[k].message_count
                  /\ AnsweredTurns(messages) <= 50
                  /\ Len(messages) <= 200
        /\ \A k \in DOMAIN conversation_sessions \cup DOMAIN conversation_sessions' :
              LET before == Before(k).messages
                  after == HistoryAfter(k)
              IN  \/ after = before
                  \/ /\ last'.op = "chat" /\ last'.session_id = k
                     /\ last'.outcome = "answered"
                     /\ Len(after) \in Len(before) + 1 .. Len(before) + 4
                     /\ SubSeq(after, 1, Len(before)) = before
                     /\ AnsweredTurns(after) = AnsweredTurns(before) + 1
                     /\ after[Len(before) + 1].role = "user"
                  \/ /\ last'.session_id = k
                     /\ last'.op = "reset" \/ last'.outcome = "session_reset"
                     /\ after = <<>> ]_vars

\* C28 witness: the fiftieth turn of a session was answered with a function
\* exchange as the forty-nine before it, and the history has 200 messages.
C28_Witness ==
    /\ last.op = "chat" /\ last.outcome = "answered"
    /\ conversation_sessions[last.session_id].message_count = 50
    /\ Len(conversation_sessions[last.session_id].messages) = 200

\* The user messages of a list of messages all validate with action allow.
OnlyAllowed(messages) ==
    \A i \in 1..Len(messages) :
        messages[i].role = "user"
        => /\ messages[i].content \in {Strip(t) : t \in ChatTexts}
           /\ ValidationOf[messages[i].content, 1].action = "allow"

\* C29: every user message in a history passed validation with action
\* allow in the turn that stored it.  A turn changes the history by
\* storing only when it was allowed and answered; a turn that validated
\* unsafe or off-topic and a rate-limited turn store nothing; and the
\* message list of a model call holds no user message that was not allowed.
C29_OnlyAllowedStored ==
    [][ /\ \A k \in DOMAIN conversation_sessions' :
              OnlyAllowed(conversation_sessions'[k].messages)
        /\ OnlyAllowed(last'.context)
        /\ ( /\ last'.op = "chat"
             /\ HistoryAfter(last'.session_id) # Before(last'.session_id).messages
             /\ HistoryAfter(last'.session_id) # <<>> )
           => /\ last'.request = "text" /\ last'.validated
              /\ last'.action = "allow" /\ last'.outcome = "answered"
        /\ ( /\ last'.op = "chat"
             /\ \/ last'.action \in {"block", "redirect"}
                \/ last'.outcome = "rate_limited" )
           => HistoryAfter(last'.session_id)
                 \in {Before(last'.session_id).messages, <<>>} ]_vars

\* C29 witness: an off-topic message came after an unsafe one in a session
\* that has a history, and the history holds travel queries only.
C29_Witness ==
    /\ last.op = "chat" /\ last.action = "redirect"
    /\ conversation_sessions[last.session_id].security_violations = 1
    /\ Len(conversation_sessions[last.session_id].messages) >= 2
    /\ OnlyAllowed(conversation_sessions[last.session_id].messages)

----------------------------------------------------------------------------
(* The claims about the validator, under SpecValidator.                    *)

\* The text has the word as a whole word, whatever the case: its chunks,
\* with no word chunk glued before or after.
HasWholeWord(t, word) ==
    \E i \in 1..Len(t) :
        /\ i + Len(word) - 1 <= Len(t)
        /\ \A j \in 1..Len(word) : LowerChunk(t[i + j - 1]) = word[j]
        /\ (i = 1 \/ t[i - 1] \in NonWordChunks)
        /\ (i + Len(word) - 1 = Len(t) \/ t[i + Len(word)] \in NonWordChunks)

HasAnyWholeWord(t, words) == \E k \in 1..Len(words) : HasWholeWord(t, words[k])

\* C9: for every text that has a high-threat keyword as a whole word,
\* validate_content returns is_safe = false, action = block and severity =
\* critical, whatever travel keywords, travel phrases or keywords of other
\* threat categories the text has too.
C9_HighThreatIsCritical ==
    (validation # NoResult /\ text.is_str
       /\ HasAnyWholeWord(text.chunks, high_threat))
    => /\ ~validation.is_safe
       /\ validation.action = "block"
       /\ validation.severity = "critical"

\* C9 witness: a validated text with a high-threat keyword and, before it,
\* a keyword of another threat category.
C9_Witness ==
    /\ validation # NoResult
    /\ text = Str(<<"SEX", "-", "bomb">>)
    /\ validation.severity = "critical"

\* C10: every result of validate_content has the one action its flags
\* determine: block when is_safe is false, redirect when is_safe is true and
\* is_travel false, allow when both are true.
C10_ActionByFlags ==
    validation # NoResult
    => /\ validation.action \in {"block", "redirect", "allow"}
       /\ ~validation.is_safe => validation.action = "block"
       /\ (validation.is_safe /\ ~validation.is_travel)
             => validation.action = "redirect"
       /\ (validation.is_safe /\ validation.is_travel)
             => validation.action = "allow"

\* C10 witness: a result with is_safe true and is_travel false.
C10_Witness ==
    /\ validation # NoResult
    /\ validation.is_safe /\ ~validation.is_travel
    /\ validation.action = "redirect"

\* The travel relevance score of the text is at least 0.3.
ScoresAsTravel(t) ==
    LET score == _calculate_travel_relevance(Lower(Strip(t)))
    IN  10 * score.num >= 3 * score.den

\* C11, as stated: for every text whose travel relevance score is at least
\* 0.3, validate_content returns is_travel = true.
C11_ScoreMakesTravel ==
    (validation # NoResult /\ text.is_str /\ ScoresAsTravel(text.chunks))
    => validation.is_travel

\* C11, amended: for every text in which no threat pattern matches and whose
\* travel relevance score is at least 0.3, validate_content returns
\* is_travel = true with action allow; a text in which a threat pattern
\* matches is blocked with is_travel = false whatever its score.
C11_SafeScoreMakesTravel ==
    (validation # NoResult /\ text.is_str /\ ScoresAsTravel(text.chunks))
    => IF _check_security_threats(Lower(Strip(text.chunks))).is_safe
       THEN validation.is_travel /\ validation.action = "allow"
       ELSE ~validation.is_travel /\ validation.action = "block"

\* C11 witness: a validated text with a travel keyword among other words and
\* no threat keyword, found travel-related.
C11_Witness ==
    /\ validation # NoResult
    /\ text = Str(<<"s", " ", "visit">>)
    /\ validation.is_travel

----------------------------------------------------------------------------
(* Two chat requests for the same session served by two threads of the     *)
(* server, statement by statement.  chat() takes no lock.  A session       *)
(* record is a dictionary object: the store maps the key to an object, a   *)
(* thread keeps the object it loaded, and session[k] += 1 is a read and    *)
(* a write.  threads.heap holds the objects, threads.ref the object of     *)
(* each key; conversation_sessions is the store they make up.              *)

Tids == {1, 2}

ThreadSession == "s1"

ThreadTexts == { <<"bomb">>, <<"hello">>, <<"visit", " ", "paris">> }

\* The model's answers to a thread: a failure, a text, a function call that
\* is executed.
ThreadEnvironments(user_message) ==
    IF ValidationOf[user_message, 1].action # "allow" THEN {Quiet}
    ELSE {Quiet,
          [Quiet EXCEPT !.response = TextResponse],
          [Quiet EXCEPT !.response = FunctionCall("search_hotels", "accepted")],
          [Quiet EXCEPT !.response = FunctionCall("search_hotels", "accepted"),
                        !.final_response = TextResponse]}

\* The stores the two requests find: no session, a session after one unsafe
\* turn, a session after one answered turn.
ThreadStores ==
    { << >>,
      [k \in {ThreadSession} |->
          [NewSession EXCEPT !.message_count = 1, !.security_violations = 1]],
      [k \in {ThreadSession} |->
          [NewSession EXCEPT !.message_count = 1,
                             !.messages = RegularExchange(<<"visit", " ", "paris">>)]] }

\* The store made of the objects the keys refer to.
StoreOf(ref, heap) == [k \in DOMAIN ref |-> heap[ref[k]]]

InitThreads ==
    /\ conversation_sessions \in ThreadStores
    /\ last = NoRequest
    /\ text = NotStr
    /\ validation = NoResult
    /\ NothingLoaded
    /\ \E messages \in [Tids -> ThreadTexts] :
       \E envs \in [Tids -> UNION {ThreadEnvironments(m) : m \in ThreadTexts}] :
          /\ \A tid \in Tids : envs[tid] \in ThreadEnvironments(messages[tid])
          /\ threads =
               [start |-> conversation_sessions,
                heap |-> IF conversation_sessions = << >> THEN << >>
                         ELSE <<conversation_sessions[ThreadSession]>>,
                ref |-> [k \in DOMAIN conversation_sessions |-> 1],
                run |-> [tid \in Tids |->
                           [pc |-> "receive", user_message |-> messages[tid],
                            env |-> envs[tid], session |-> 0, count |-> 0,
                            exchange |-> << >>]]]

\* A step of thread tid: its program counter and registers, the heap and the
\* store after it.
Step(tid, pc, run, heap, ref) ==
    /\ threads' = [threads EXCEPT !.run[tid] = [run EXCEPT !.pc = pc],
                                  !.heap = heap, !.ref = ref]
    /\ conversation_sessions' = StoreOf(ref, heap)
    /\ UNCHANGED <<last, text, validation, queries>>

At(tid, pc) == threads.run[tid].pc = pc

\* if session_id not in conversation_sessions
Receive(tid) ==
    /\ At(tid, "receive")
    /\ Step(tid, IF ThreadSession \in DOMAIN threads.ref THEN "load" ELSE "create",
            threads.run[tid], threads.heap, threads.ref)

\* conversation_sessions[session_id] = {...}
Create(tid) ==
    /\ At(tid, "create")
    /\ Step(tid, "load", threads.run[tid], Append(threads.heap, NewSession),
            Put(threads.ref, ThreadSession, Len(threads.heap) + 1))

\* session = conversation_sessions[session_id]
Load(tid) ==
    /\ At(tid, "load")
    /\ Step(tid, "read_count",
            [threads.run[tid] EXCEPT !.session = threads.ref[ThreadSession]],
            threads.heap, threads.ref)

\* session['message_count'] += 1: the read
ReadCount(tid) ==
    /\ At(tid, "read_count")
    /\ Step(tid, "write_count",
            [threads.run[tid] EXCEPT
               !.count = threads.heap[threads.run[tid].session].message_count],
            threads.heap, threads.ref)

\* session['message_count'] += 1: the write
WriteCount(tid) ==
    /\ At(tid, "write_count")
    /\ Step(tid, "route", threads.run[tid],
            [threads.heap EXCEPT ![threads.run[tid].session].message_count =
                                     threads.run[tid].count + 1],
            threads.ref)

\* The rate limit, then validate_content and the branch it selects.
Route(tid) ==
    /\ At(tid, "route")
    /\ LET validation_result == ValidationOf[threads.run[tid].user_message,
                                             threads.run[tid].env.suggestion]
       IN  Step(tid,
                IF RateLimited(threads.heap[threads.run[tid].session]) THEN "done"
                ELSE IF ~validation_result.is_safe THEN "read_violations"
                ELSE IF ~validation_result.is_travel THEN "read_warnings"
                ELSE "call_model",
                threads.run[tid], threads.heap, threads.ref)

\* session['security_violations'] += 1: the read
ReadViolations(tid) ==
    /\ At(tid, "read_violations")
    /\ Step(tid, "write_violations",
            [threads.run[tid] EXCEPT
               !.count = threads.heap[threads.run[tid].session].security_violations],
            threads.heap, threads.ref)

\* session['security_violations'] += 1: the write
WriteViolations(tid) ==
    /\ At(tid, "write_violations")
    /\ Step(tid, "check_violations", threads.run[tid],
            [threads.heap EXCEPT ![threads.run[tid].session].security_violations =
                                     threads.run[tid].count + 1],
            threads.ref)

\* if session['security_violations'] >= 2: conversation_sessions[session_id] = {...}
CheckViolations(tid) ==
    /\ At(tid, "check_violations")
    /\ IF threads.heap[threads.run[tid].session].security_violations >= ViolationLimit
       THEN Step(tid, "done", threads.run[tid], Append(threads.heap, NewSession),
                 Put(threads.ref, ThreadSession, Len(threads.heap) + 1))
       ELSE Step(tid, "done", threads.run[tid], threads.heap, threads.ref)

\* session['off_topic_warnings'] += 1: the read
ReadWarnings(tid) ==
    /\ At(tid, "read_warnings")
    /\ Step(tid, "write_warnings",
            [threads.run[tid] EXCEPT
               !.count = threads.heap[threads.run[tid].session].off_topic_warnings],
            threads.heap, threads.ref)

\* session['off_topic_warnings'] += 1: the write
WriteWarnings(tid) ==
    /\ At(tid, "write_warnings")
    /\ Step(tid, "done", threads.run[tid],
            [threads.heap EXCEPT ![threads.run[tid].session].off_topic_warnings =
                                     threads.run[tid].count + 1],
            threads.ref)

\* The first model call and the branch its answer selects.
CallModel(tid) ==
    /\ At(tid, "call_model")
    /\ LET me == threads.run[tid]
           response == me.env.response
       IN  IF response.kind = "none"
           THEN Step(tid, "done", me, threads.heap, threads.ref)
           ELSE IF response.kind = "text"
           THEN Step(tid, "extend",
                     [me EXCEPT !.exchange = RegularExchange(me.user_message)],
                     threads.heap, threads.ref)
           ELSE Step(tid, "call_again", me, threads.heap, threads.ref)

\* The function is executed and the model called again.
CallAgain(tid) ==
    /\ At(tid, "call_again")
    /\ LET me == threads.run[tid]
       IN  Step(tid, "extend",
                [me EXCEPT !.exchange =
                    IF me.env.final_response.kind # "none"
                    THEN FunctionExchange(me.user_message, me.env.response.name)
                    ELSE FallbackExchange(me.user_message, me.env.response.name)],
                threads.heap, threads.ref)

\* session['messages'].extend([...])
StoreExchange(tid) ==
    /\ At(tid, "extend")
    /\ Step(tid, "done", threads.run[tid],
            [threads.heap EXCEPT ![threads.run[tid].session] =
                                     Extend(@, threads.run[tid].exchange)],
            threads.ref)

NextThreads ==
    \E tid \in Tids :
        \/ Receive(tid)
        \/ Create(tid)
        \/ Load(tid)
        \/ ReadCount(tid)
        \/ WriteCount(tid)
        \/ Route(tid)
        \/ ReadViolations(tid)
        \/ WriteViolations(tid)
        \/ CheckViolations(tid)
        \/ ReadWarnings(tid)
        \/ WriteWarnings(tid)
        \/ CallModel(tid)
        \/ CallAgain(tid)
        \/ StoreExchange(tid)

SpecThreads == InitThreads /\ [][NextThreads]_vars

\* The store after the turn of thread first, then the turn of thread second,
\* one after the other.
Serial(first, second) ==
    LET of(tid) == threads.run[tid]
        one == chat(threads.start, ThreadSession, Str(of(first).user_message),
                    of(first).env.suggestion, of(first).env.response,
                    of(first).env.final_response)
        two == chat(one.sessions, ThreadSession, Str(of(second).user_message),
                    of(second).env.suggestion, of(second).env.response,
                    of(second).env.final_response)
    IN  two.sessions

BothDone == \A tid \in Tids : At(tid, "done")

\* C4: when two chat turns for the same session key run concurrently, no
\* update is lost: once both have completed, the session's counters and
\* history are those of one of the two serial executions of the turns.
C4_NoLostUpdate ==
    BothDone => conversation_sessions \in {Serial(1, 2), Serial(2, 1)}

----------------------------------------------------------------------------
(* The claims about the query functions, under SpecQueries.                *)

\* The city argument is a string that names a city of the hotel dataset,
\* whatever its case and the blanks around it.
KnownHotelCity ==
    /\ IsStr(query.city)
    /\ \E i \in 1..Len(hotels_df) :
          StrLower(hotels_df[i].city) = StrLower(StripTitle(query.city.s))

\* The filters of the call are ones search_hotels accepts.
AcceptedHotelFilters ==
    /\ \/ query.budget_max.kind = "none"
       \/ query.budget_max.kind = "int" /\ query.budget_max.n \in 0..MaxBudget
    /\ \/ query.category.kind = "none"
       \/ /\ query.category.kind = "str"
          /\ StrLower(query.category.s) \in {"luxury", "mid-range", "budget"}

\* The hotel row passes the filters of the call (a budget_max of 0 is a filter
\* that search_hotels does not apply, see C17).
PassesHotelFilters(row) ==
    /\ (query.budget_max.kind = "int" /\ query.budget_max.n > 0)
          => row.price_per_night <= query.budget_max.n
    /\ query.category.kind = "str"
          => StrLower(row.category) = StrLower(query.category.s)
    /\ query.check_availability = PyBool(TRUE) => row.availability

\* C16: search_hotels never returns a success payload with an empty hotel
\* list: an unknown city yields an error that lists the available cities, and
\* a known city whose filters leave no hotel yields a different error, with an
\* adjustment suggestion and without a list of cities.
C16_NoEmptySuccess ==
    query.function = "search_hotels"
    => /\ Succeeded(query.result) => query.result.hotels # <<>>
       /\ (IsStr(query.city) /\ query.city.s # "" /\ hotels_df # <<>>
             /\ ~KnownHotelCity)
          => /\ ~Succeeded(query.result)
             /\ query.result.keys = {"error", "available_cities", "suggestion"}
             /\ query.result.available_cities
                   = SortedCities({hotels_df[i].city : i \in 1..Len(hotels_df)})
             /\ query.result.available_cities # <<>>
       /\ (KnownHotelCity /\ AcceptedHotelFilters
             /\ \A i \in 1..Len(hotels_df) :
                   StrLower(hotels_df[i].city) = StrLower(StripTitle(query.city.s))
                      => ~PassesHotelFilters(hotels_df[i]))
          => /\ ~Succeeded(query.result)
             /\ query.result.keys = {"error", "suggestion"}
             /\ query.result.error # "no_hotels_in_city"
             /\ query.result.suggestion = "adjust_budget_or_category"

\* C16 witness: a search in a known city whose category filter leaves no
\* hotel.
C16_Witness ==
    /\ query.function = "search_hotels"
    /\ query.city = PyStr("Rome") /\ query.category = PyStr("LUXURY")
    /\ query.budget_max = PyNone
    /\ hotels_df # <<>> /\ KnownHotelCity
    /\ query.result.error = "no_hotels_matching_criteria"

\* C17: for a known city and an integer budget_max in [0, 5000], 0 included,
\* every hotel of a success payload of search_hotels has price_per_night <=
\* budget_max; a budget_max that is given and is no integer in [0, 5000]
\* yields an error payload.
C17_BudgetRespected ==
    (query.function = "search_hotels" /\ KnownHotelCity)
    => /\ (query.budget_max.kind = "int" /\ query.budget_max.n \in 0..MaxBudget
             /\ Succeeded(query.result))
          => \A i \in 1..Len(query.result.hotels) :
                query.result.hotels[i].price_per_night <= query.budget_max.n
       /\ (\/ query.budget_max.kind \in {"float", "str"}
           \/ query.budget_max.kind = "int" /\ query.budget_max.n \notin 0..MaxBudget)
          => ~Succeeded(query.result)

\* The ids of the attractions of a day plan.
IdsOfDay(day_plan) ==
    {day_plan.attraction_details[i].id : i \in 1..Len(day_plan.attraction_details)}

\* C18: in an itinerary returned by create_itinerary no attraction id is
\* assigned to two different days.
C18_NoAttractionTwice ==
    (query.function = "create_itinerary" /\ Succeeded(query.result))
    => \A d1, d2 \in 1..Len(query.result.itinerary) :
          d1 # d2 => IdsOfDay(query.result.itinerary[d1])
                        \cap IdsOfDay(query.result.itinerary[d2]) = {}

\* C18 witness: a generated itinerary of two days, each with attractions, from
\* a dataset in which two rows of the city have the same id.
C18_Witness ==
    /\ query.function = "create_itinerary"
    /\ query.result.itinerary_type = "custom_generated"
    /\ Len(query.result.itinerary) = 2
    /\ \A d \in 1..2 : IdsOfDay(query.result.itinerary[d]) # {}
    /\ \E i, j \in 1..Len(attractions_df) :
          /\ i # j
          /\ attractions_df[i].attraction_id = attractions_df[j].attraction_id
          /\ attractions_df[i].city = "Paris" /\ attractions_df[j].city = "Paris"

\* The loader's except branch was taken: the three datasets are empty.
LoadFailed ==
    hotels_df = <<>> /\ attractions_df = <<>> /\ itinerary_templates = NoTemplates

\* The functions that read the datasets.
DatasetFunctions ==
    {"search_hotels", "get_attractions", "create_itinerary",
     "get_travel_budget_estimate"}

\* C20, as stated: when the datasets failed to load, search_hotels,
\* get_attractions, create_itinerary and get_travel_budget_estimate return an
\* error payload, never a success payload.
C20_AllUnavailable ==
    (LoadFailed /\ query.function \in DatasetFunctions)
    => ~Succeeded(query.result) /\ "error" \in query.result.keys

\* The arguments of the budget estimate are ones it accepts.
AcceptedBudgetArgs ==
    /\ IsStr(query.city) /\ query.city.s # ""
    /\ IsInt(query.duration_days) /\ query.duration_days.n \in 1..MaxBudgetDays
    /\ \/ query.category = Absent
       \/ IsStr(query.category)
          /\ query.category.s \in {"luxury", "mid-range", "budget"}

\* C20, amended: when the datasets failed to load, search_hotels,
\* get_attractions and create_itinerary return an error payload, never a
\* success payload; get_travel_budget_estimate returns a success payload for
\* the arguments it accepts, computed from the fallback prices (the base price
\* of the category times the city's multiplier, and 20 for an attraction),
\* and an error payload for the others.
C20_UnavailableButEstimate ==
    (LoadFailed /\ query.function \in DatasetFunctions)
    => IF query.function = "get_travel_budget_estimate"
       THEN /\ Succeeded(query.result) <=> AcceptedBudgetArgs
            /\ ~Succeeded(query.result) => "error" \in query.result.keys
            /\ Succeeded(query.result)
                  => /\ query.result.avg_attraction_cost
                           = [num |-> FallbackAttractionCost, den |-> 1]
                     /\ query.result.accommodation_total
                           = query.duration_days.n
                               * ((base_prices(IF query.category = Absent
                                               THEN "mid-range"
                                               ELSE query.category.s)
                                    * city_multipliers(StripTitle(query.city.s)))
                                  \div 10)
       ELSE ~Succeeded(query.result) /\ "error" \in query.result.keys

\* C20 witness: a budget estimate for Paris answered with success from the
\* fallback prices while the datasets are empty.
C20_Witness ==
    /\ LoadFailed
    /\ query.function = "get_travel_budget_estimate"
    /\ query.city = PyStr(" PARIS ") /\ query.category = PyStr("luxury")
    /\ query.duration_days = PyInt(2)
    /\ Succeeded(query.result)
    /\ query.result.accommodation_total = 1040

\* The months of a city as the claim reads them: the city's own table when it
\* is listed, the generic table otherwise.
MonthsOf(city) ==
    IF city \in DOMAIN weather_data THEN weather_data[city] ELSE default_weather

\* The call is made with a city name and a valid month name, in any case and
\* with blanks around them.
WeatherAsked ==
    /\ query.function = "check_weather_recommendation"
    /\ IsStr(query.city) /\ Truthy(query.city)
    /\ IsStr(query.travel_month)
    /\ StripTitle(query.travel_month.s) \in valid_months

\* C21: for every city, listed or not, and every valid month name,
\* check_weather_recommendation succeeds with exactly one level: excellent
\* for a month of best_months, otherwise good for one of good_months,
\* otherwise not_recommended for one of avoid_months, otherwise fair; the
\* generic table serves the cities that are not listed, and Bangkok in July
\* is not_recommended.
C21_WeatherLevel ==
    WeatherAsked =>
        LET city == StripTitle(query.city.s)
            month == StripTitle(query.travel_month.s)
            months == MonthsOf(city)
            level == query.result.recommendation_level
        IN  /\ Succeeded(query.result)
            /\ query.result.city = city /\ query.result.travel_month = month
            /\ level \in {"excellent", "good", "not_recommended", "fair"}
            /\ (level = "excellent") <=> (month \in months.best_months)
            /\ (level = "good") <=>
                   (month \notin months.best_months /\ month \in months.good_months)
            /\ (level = "not_recommended") <=>
                   /\ month \notin months.best_months \cup months.good_months
                   /\ month \in months.avoid_months
            /\ (level = "fair") <=>
                   month \notin months.best_months \cup months.good_months
                                \cup months.avoid_months
            /\ (city = "Bangkok" /\ month = "July") => level = "not_recommended"

\* Bangkok was asked for in July, in lower case, and is not recommended.
C21_Witness ==
    /\ WeatherAsked
    /\ query.city = PyStr("bangkok") /\ query.travel_month = PyStr("july")
    /\ query.result.recommendation_level = "not_recommended"

\* create_itinerary was called with a city name and a number of days from 1
\* to 14 (an integer, no boolean).
ItineraryAsked ==
    /\ query.function = "create_itinerary"
    /\ IsStr(query.city) /\ Truthy(query.city)
    /\ query.duration_days.kind = "int"
    /\ query.duration_days.n \in 1..14

\* There is a curated template for the city and the days asked for.
TemplateExists ==
    /\ StripTitle(query.city.s) \in DOMAIN itinerary_templates
    /\ query.duration_days.n \in DOMAIN itinerary_templates[StripTitle(query.city.s)]

\* C24: whenever a curated template exists for the city and the days asked
\* for, create_itinerary returns that template unchanged and marked as
\* curated, with a total cost that is the sum of its days' estimated_cost,
\* whatever the attraction dataset holds (nothing, or nothing for the city).
C24_TemplateFirst ==
    (ItineraryAsked /\ TemplateExists)
    => LET template == itinerary_templates[StripTitle(query.city.s)]
                                         [query.duration_days.n]
       IN  /\ Succeeded(query.result)
           /\ query.result.itinerary_type = "curated_template"
           /\ query.result.itinerary = template
           /\ query.result.city = StripTitle(query.city.s)
           /\ query.result.duration_days = query.duration_days.n
           /\ query.result.total_estimated_cost
                 = Sum([i \in 1..Len(template) |-> template[i].estimated_cost])

\* C24 witness: the template of two days was returned by a process whose
\* attraction dataset is empty.
C24_Witness ==
    /\ ItineraryAsked /\ TemplateExists
    /\ attractions_df = <<>>
    /\ query.duration_days.n = 2
    /\ query.result.itinerary_type = "curated_template"
    /\ query.result.total_estimated_cost = 220

\* The rows of the attraction dataset for the city asked for.
CityRows ==
    SelectSeq(attractions_df,
              LAMBDA row : StrLower(row.city) = StrLower(StripTitle(query.city.s)))

\* The number of attractions fetched for the city: get_attractions returns
\* no more than 12.
Fetched == IF Len(CityRows) <= 12 THEN Len(CityRows) ELSE 12

\* The quota of a day.
Quota(n, days) == IF n \div days >= 2 THEN n \div days ELSE 2

\* create_itinerary generated an itinerary.
Generated ==
    /\ query.function = "create_itinerary"
    /\ Succeeded(query.result)
    /\ query.result.itinerary_type = "custom_generated"

\* C25: in every generated itinerary each day is assigned exactly
\* max(2, n div duration_days) attractions, n being the number of
\* attractions fetched for the city (n >= 2 * duration_days); no day is
\* left with fewer; and the estimated_cost of a day is 50 plus the entry
\* fees of its attractions.
C25_QuotaFilled ==
    Generated
    => LET days == query.result.duration_days
           itinerary == query.result.itinerary
       IN  /\ Fetched >= 2 * days
           /\ Len(itinerary) = days
           /\ \A d \in 1..days :
                 LET details == itinerary[d].attraction_details
                 IN  /\ Len(details) = Quota(Fetched, days)
                     /\ itinerary[d].estimated_cost
                           = 50 + Sum([i \in 1..Len(details) |-> details[i].entry_fee])

\* C30: create_itinerary fetches its attractions through get_attractions,
\* which returns no more than 12, so it generates an itinerary only for 6
\* days or fewer: for 7 to 14 days without a curated template the result
\* for a city that has attractions in the dataset, however many, is the
\* insufficient-attractions error, and for any city it is no success.
C30_NoLongGenerated ==
    /\ Generated => query.result.duration_days <= 6
    /\ (ItineraryAsked /\ query.duration_days.n \in 7..14 /\ ~TemplateExists)
       => /\ ~Succeeded(query.result)
          /\ "error" \in query.result.keys
          /\ CityRows # <<>>
                => /\ query.result.error = "insufficient_attraction_data"
                   /\ query.result.keys = {"error", "suggestion"}

\* C30 witness: a week was asked for in a city with 14 attractions, enough
\* for 7 days were they all fetched, and the answer is the
\* insufficient-attractions error.
C30_Witness ==
    /\ ItineraryAsked /\ query.duration_days.n = 7 /\ ~TemplateExists
    /\ Len(CityRows) = 14
    /\ query.result.error = "insufficient_attraction_data"

=============================================================================
